---- MODULE Spec2Model ----
(***************************************************************************)
(* A model of the calendar assistant's scheduling and tool-dispatch core:  *)
(*   - SchedulerService (slot search over an event snapshot),              *)
(*   - ToolDispatcher.executeFunction with its duplicate-call cache and    *)
(*     the handlers it routes to,                                          *)
(*   - the attendee / id-list argument handling of the handlers.           *)
(* Dates are minutes of local time counted from the midnight that starts   *)
(* day 0; the dispatcher's clock (Date.now()) is in milliseconds.          *)
(***************************************************************************)
EXTENDS Integers, Sequences, FiniteSets, TLC

VARIABLES
    \* ---- SchedulerService ----
    schedEvents,   \* SchedulerService.events, the snapshot given by setEvents
    query,         \* the arguments of the findFreeSlots call under study
    slots,         \* the list findFreeSlots returned
    schedPc,       \* "input" before the call; "searched", "checked" or
                   \* "suggested" after it
    availability,  \* what checkAvailability returned
    \* ---- ToolDispatcher and the services of its context ----
    events,              \* context.events, the in-memory snapshot
    recentFunctionCalls, \* ToolDispatcher.recentFunctionCalls, the duplicate cache
    icsGeneratorEvents,  \* ICSGenerator.events of the shared generator
    hasToken,            \* CalendarService.accessToken is set
    now,                 \* Date.now(), milliseconds
    inv,                 \* the executeFunction invocations, one per slot
    budget,              \* how many more calls the caller starts
    nextResult,          \* the result objects created so far (their identity)
    recorded,            \* the entries addToRecentCalls pushed for calls naming
                         \* Joe, Dan and Sally, kept for reference
    \* ---- argument handling of the handlers ----
    normIn,        \* the argument under study: [enc, list, raw], or the
                   \* arguments of create_email_draft
    normOut,       \* what the handler made of it
    normPc,        \* "input" before the handler ran, "done" after it
    \* ---- date recalculation of createCalendarLink ----
    dateIn,        \* the parameters and the clock: [startTime, endTime,
                   \* userMessage, now]
    dateOut,       \* what the handler made of them
    datePc,        \* "input" before the handler ran, "done" after it
    \* ---- App.handleSendMessage ----
    functionCalls, \* the LLM response being handled: response.functionCalls
                   \* and the chat message that led to it
    chat           \* what the chat shows for it: the assistant message built
                   \* from the results, or chatError

schedVars == <<schedEvents, query, slots, schedPc, availability>>

dispVars == <<events, recentFunctionCalls, icsGeneratorEvents, hasToken, now,
              inv, budget, nextResult, recorded>>

normVars == <<normIn, normOut, normPc>>

dateVars == <<dateIn, dateOut, datePc>>

chatVars == <<functionCalls, chat>>

vars == <<schedEvents, query, slots, schedPc, availability,
          events, recentFunctionCalls, icsGeneratorEvents, hasToken, now,
          inv, budget, nextResult, recorded,
          normIn, normOut, normPc,
          dateIn, dateOut, datePc,
          functionCalls, chat>>

-----------------------------------------------------------------------------
(* Bounds of the scheduler inputs *)

\* days 0..MaxDay are the calendar days the inputs may touch
MaxDay == 2
\* the snapshot holds at most this many events
MaxSchedEvents == 2

-----------------------------------------------------------------------------
(* Date arithmetic (local time, no DST change inside the horizon) *)

MinutesPerDay == 24 * 60

DayOf(t) == t \div MinutesPerDay

\* Date.setHours(0, 0, 0, 0)
Midnight(t) == DayOf(t) * MinutesPerDay

\* Date.setHours(h, m, 0, 0) with hm = 60*h + m
SetHours(t, hm) == Midnight(t) + hm

\* Date.setDate(getDate() + n): same time of day, n days later
AddDays(t, n) == t + n * MinutesPerDay

\* Date.getDay(): 0 = Sunday .. 6 = Saturday; day 0 of the model is a Thursday,
\* so that the horizon runs from working days into the weekend
Day0Weekday == 4

GetDay(t) == (Day0Weekday + DayOf(t)) % 7

\* constraints.workingDays as App constructs the scheduler
WorkingDays == {1, 2, 3, 4, 5}

-----------------------------------------------------------------------------
(* SchedulerService *)

NoWindow == [start |-> -1, end |-> -1]

\* the default working hours of findFreeSlotsForDay
DefaultDayStart == 540
DefaultDayEnd == 1020
\* the step between candidate slot starts
SlotStep == 30

getEventsForDate(date) ==
    { e \in schedEvents : Midnight(e.startTime) = Midnight(date) }

getBusySlots(dayEvents) ==
    { [start |-> e.startTime, end |-> e.endTime] : e \in dayEvents }

\* the test of isTimeSlotBusy with both comparisons made inclusive
isTimeSlotBusyInclusive(start, end, busySlots) ==
    \E busy \in busySlots : start <= busy.end /\ end >= busy.start

isTimeSlotBusy(start, end, busySlots) ==
    \E busy \in busySlots : start < busy.end /\ end > busy.start

\* the while loop of findFreeSlotsForDay, from currentTime on
RECURSIVE DayLoop(_, _, _, _)
DayLoop(currentTime, dayEnd, duration, busySlots) ==
    IF ~(currentTime < dayEnd) THEN << >>
    ELSE LET slotEnd == currentTime + duration
             here == IF slotEnd <= dayEnd
                        /\ ~isTimeSlotBusy(currentTime, slotEnd, busySlots)
                     THEN << [start |-> currentTime, end |-> slotEnd,
                              duration |-> duration, isAvailable |-> TRUE] >>
                     ELSE << >>
         IN  here \o DayLoop(currentTime + SlotStep, dayEnd, duration, busySlots)

findFreeSlotsForDay(date, duration, preferredTime) ==
    LET dayStart == IF preferredTime # NoWindow
                    THEN SetHours(date, preferredTime.start)
                    ELSE SetHours(date, DefaultDayStart)
        dayEnd   == IF preferredTime # NoWindow
                    THEN SetHours(date, preferredTime.end)
                    ELSE SetHours(date, DefaultDayEnd)
        busySlots == getBusySlots(getEventsForDate(date))
    IN  DayLoop(dayStart, dayEnd, duration, busySlots)

\* the while loop of findFreeSlots, from currentDate on
RECURSIVE DateLoop(_, _, _, _)
DateLoop(currentDate, endDate, duration, preferredTime) ==
    IF ~(currentDate <= endDate) THEN << >>
    ELSE IF GetDay(currentDate) \notin WorkingDays
         THEN DateLoop(AddDays(currentDate, 1), endDate, duration, preferredTime)
         ELSE findFreeSlotsForDay(currentDate, duration, preferredTime)
              \o DateLoop(AddDays(currentDate, 1), endDate, duration, preferredTime)

findFreeSlots(duration, startDate, endDate, preferredTime) ==
    DateLoop(startDate, endDate, duration, preferredTime)

\* checkAvailability with attendees left at its default []: attendeeConflict
\* is false, the conflicts are the events whose time conflicts
checkAvailability(startTime, endTime) ==
    LET conflicts == { event \in schedEvents :
                         startTime < event.endTime /\ endTime > event.startTime }
    IN  [available |-> conflicts = {}, conflicts |-> conflicts]

\* Date.getHours of a date
getHours(t) == (t % MinutesPerDay) \div 60

\* preferredTime as suggestOptimalMeetingTimes receives it; "absent" is an
\* argument left undefined
PreferredTimes == {"morning", "afternoon", "evening", "any", "absent"}
Urgencies == {"low", "medium", "high"}

isPreferredTime(hour, preferredTime) ==
    CASE preferredTime = "morning"   -> hour >= 9 /\ hour < 12
      [] preferredTime = "afternoon" -> hour >= 13 /\ hour < 17
      [] preferredTime = "evening"   -> hour >= 17 /\ hour < 19
      [] OTHER                       -> TRUE

\* the comparator sortSlotsByPriority hands to Array.prototype.sort: negative
\* when a goes first, positive when b goes first
compareSlots(a, b, urgency, preferredTime) ==
    LET dateDiff == a.start - b.start
        absDiff  == IF dateDiff < 0 THEN -dateDiff ELSE dateDiff
        aHour == getHours(a.start)
        bHour == getHours(b.start)
        aPreferred == isPreferredTime(aHour, preferredTime)
        bPreferred == isPreferredTime(bHour, preferredTime)
    IN  IF urgency = "high" /\ absDiff > MinutesPerDay THEN dateDiff
        ELSE IF preferredTime \notin {"absent", "any"} /\ aPreferred /\ ~bPreferred
             THEN -1
        ELSE IF preferredTime \notin {"absent", "any"} /\ ~aPreferred /\ bPreferred
             THEN 1
        ELSE aHour - bHour

\* Array.prototype.sort as the engine runs it on an array of fewer than 64
\* elements: the leading run is counted (and reversed when it is strictly
\* descending), then every later element is placed by binary insertion. The
\* engine only looks at the sign of the comparator's answers, so the outcome
\* is defined also when the answers are not those of an order.
RECURSIVE RunLength(_, _, _, _, _)
RunLength(arr, idx, isDescending, urgency, preferredTime) ==
    IF idx > Len(arr) THEN idx - 1
    ELSE LET order == compareSlots(arr[idx], arr[idx - 1], urgency, preferredTime)
         IN  IF (isDescending /\ order >= 0) \/ (~isDescending /\ order < 0)
             THEN idx - 1
             ELSE RunLength(arr, idx + 1, isDescending, urgency, preferredTime)

ReverseRange(arr, n) ==
    [i \in 1..Len(arr) |-> IF i <= n THEN arr[n + 1 - i] ELSE arr[i]]

CountAndMakeRun(arr, urgency, preferredTime) ==
    LET isDescending == compareSlots(arr[2], arr[1], urgency, preferredTime) < 0
        runLength == RunLength(arr, 3, isDescending, urgency, preferredTime)
    IN  [runLength |-> runLength,
         arr |-> IF isDescending THEN ReverseRange(arr, runLength) ELSE arr]

RECURSIVE BinarySearch(_, _, _, _, _, _)
BinarySearch(arr, pivot, left, right, urgency, preferredTime) ==
    IF ~(left < right) THEN left
    ELSE LET mid == left + (right - left) \div 2
             order == compareSlots(pivot, arr[mid], urgency, preferredTime)
         IN  IF order < 0
             THEN BinarySearch(arr, pivot, left, mid, urgency, preferredTime)
             ELSE BinarySearch(arr, pivot, mid + 1, right, urgency, preferredTime)

RECURSIVE BinaryInsertionSort(_, _, _, _)
BinaryInsertionSort(arr, start, urgency, preferredTime) ==
    IF start > Len(arr) THEN arr
    ELSE LET pivot == arr[start]
             left == BinarySearch(arr, pivot, 1, start, urgency, preferredTime)
             placed == [i \in 1..Len(arr) |->
                          IF i < left THEN arr[i]
                          ELSE IF i = left THEN pivot
                          ELSE IF i <= start THEN arr[i - 1]
                          ELSE arr[i]]
         IN  BinaryInsertionSort(placed, start + 1, urgency, preferredTime)

sortSlotsByPriority(slotList, urgency, preferredTime) ==
    IF Len(slotList) < 2 THEN slotList
    ELSE LET run == CountAndMakeRun(slotList, urgency, preferredTime)
         IN  BinaryInsertionSort(run.arr, run.runLength + 1, urgency, preferredTime)

\* the daily window suggestOptimalMeetingTimes derives from preferredTime
timePreference(preferredTime) ==
    CASE preferredTime = "morning"   -> [start |-> 9 * 60,  end |-> 12 * 60]
      [] preferredTime = "afternoon" -> [start |-> 13 * 60, end |-> 17 * 60]
      [] preferredTime = "evening"   -> [start |-> 17 * 60, end |-> 19 * 60]
      [] OTHER                       -> [start |-> 9 * 60,  end |-> 17 * 60]

LookAheadDays == 7

suggestionCountFirstOnly(urgency) == 1

suggestionCount(urgency) ==
    IF urgency = "high" THEN 5 ELSE IF urgency = "medium" THEN 3 ELSE 2

\* the free slots suggestOptimalMeetingTimes ranks
suggestCandidates(duration, preferredTime, today) ==
    findFreeSlots(duration, today, AddDays(today, LookAheadDays),
                  timePreference(preferredTime))

Slice(list, n) == SubSeq(list, 1, IF n < Len(list) THEN n ELSE Len(list))

suggestOptimalMeetingTimes(duration, preferredTime, urgency, today) ==
    LET allSlots == suggestCandidates(duration, preferredTime, today)
        sortedSlots == sortSlotsByPriority(allSlots, urgency, preferredTime)
    IN  Slice(sortedSlots, suggestionCount(urgency))

-----------------------------------------------------------------------------
(* Strings and untyped argument values                                     *)
(* A string is the sequence of its characters. An element of a list is a   *)
(* tagged value [type, v]; an argument value as the LLM hands it over is   *)
(* [kind, items, text] with kind "absent" (undefined), "list" (a native    *)
(* array of elements), "string", or "number" (any other scalar).           *)

Quote == "\""

StrElem(chars) == [type |-> "string", v |-> chars]
NumElem(digits) == [type |-> "number", v |-> digits]
ArrElem(elems) == [type |-> "array", v |-> elems]

Absent == [kind |-> "absent", items |-> << >>, text |-> << >>]
ListArg(elems) == [kind |-> "list", items |-> elems, text |-> << >>]
StringArg(chars) == [kind |-> "string", items |-> << >>, text |-> chars]
NumberArg(digits) == [kind |-> "number", items |-> << >>, text |-> digits]

\* String.prototype.startsWith / endsWith for a one-character argument
StartsWith(s, c) == Len(s) >= 1 /\ s[1] = c
EndsWith(s, c) == Len(s) >= 1 /\ s[Len(s)] = c

\* String.prototype.trim (the only white space of the alphabet is " ")
RECURSIVE Trim(_)
Trim(s) ==
    IF Len(s) = 0 THEN s
    ELSE IF s[1] = " " THEN Trim(Tail(s))
    ELSE IF s[Len(s)] = " " THEN Trim(SubSeq(s, 1, Len(s) - 1))
    ELSE s

\* String.prototype.split(','): the pieces between the commas, at least one
RECURSIVE SplitFrom(_, _, _)
SplitFrom(s, i, piece) ==
    IF i > Len(s) THEN << piece >>
    ELSE IF s[i] = "," THEN << piece >> \o SplitFrom(s, i + 1, << >>)
    ELSE SplitFrom(s, i + 1, Append(piece, s[i]))

Split(s) == SplitFrom(s, 1, << >>)

\* String.prototype.includes(sub)
StrIncludes(s, sub) ==
    \E i \in 1..(Len(s) + 1) :
        /\ i + Len(sub) - 1 <= Len(s)
        /\ SubSeq(s, i, i + Len(sub) - 1) = sub

\* Array.prototype.includes(x) for a string x
ArrIncludes(elems, chars) ==
    \E i \in 1..Len(elems) : elems[i] = StrElem(chars)

(* JSON.parse over the alphabet of the model: a value is a string "...", a  *)
(* number (a run of digits 1) or an array [v, v, ...]; white space may     *)
(* surround every value. A parse is [ok, value, next].                      *)

ParseFail == [ok |-> FALSE, value |-> NumElem(<< >>), next |-> 0]

RECURSIVE SkipWs(_, _)
SkipWs(s, i) == IF i <= Len(s) /\ s[i] = " " THEN SkipWs(s, i + 1) ELSE i

RECURSIVE ClosingQuote(_, _)
ClosingQuote(s, i) ==
    IF i > Len(s) THEN 0 ELSE IF s[i] = Quote THEN i ELSE ClosingQuote(s, i + 1)

RECURSIVE DigitsEnd(_, _)
DigitsEnd(s, i) == IF i <= Len(s) /\ s[i] = "1" THEN DigitsEnd(s, i + 1) ELSE i

RECURSIVE ParseValue(_, _)
RECURSIVE ParseElements(_, _, _)

ParseValue(s, i) ==
    IF i > Len(s) THEN ParseFail
    ELSE IF s[i] = Quote THEN
        LET j == ClosingQuote(s, i + 1)
        IN  IF j = 0 THEN ParseFail
            ELSE [ok |-> TRUE, value |-> StrElem(SubSeq(s, i + 1, j - 1)), next |-> j + 1]
    ELSE IF s[i] = "1" THEN
        LET j == DigitsEnd(s, i)
        IN  [ok |-> TRUE, value |-> NumElem(SubSeq(s, i, j - 1)), next |-> j]
    ELSE IF s[i] = "[" THEN
        LET j == SkipWs(s, i + 1)
        IN  IF j <= Len(s) /\ s[j] = "]"
            THEN [ok |-> TRUE, value |-> ArrElem(<< >>), next |-> j + 1]
            ELSE ParseElements(s, j, << >>)
    ELSE ParseFail

\* the elements of an array from position i on, acc being those already read
ParseElements(s, i, acc) ==
    LET v == ParseValue(s, i)
    IN  IF ~v.ok THEN ParseFail
        ELSE LET k == SkipWs(s, v.next)
             IN  IF k > Len(s) THEN ParseFail
                 ELSE IF s[k] = "," THEN ParseElements(s, SkipWs(s, k + 1), Append(acc, v.value))
                 ELSE IF s[k] = "]"
                      THEN [ok |-> TRUE, value |-> ArrElem(Append(acc, v.value)), next |-> k + 1]
                 ELSE ParseFail

\* Array.prototype.join
RECURSIVE Join(_, _)
Join(list, sep) ==
    IF Len(list) = 0 THEN << >>
    ELSE IF Len(list) = 1 THEN list[1]
    ELSE list[1] \o sep \o Join(Tail(list), sep)

JSONParse(s) ==
    LET v == ParseValue(s, SkipWs(s, 1))
    IN  IF v.ok /\ SkipWs(s, v.next) = Len(s) + 1 THEN v ELSE ParseFail

\* rawAttendees.split(',').map(email => email.trim())
SplitTrim(s) ==
    LET parts == Split(s)
    IN  [i \in 1..Len(parts) |-> StrElem(Trim(parts[i]))]

\* the attendees block with the comma-separated branch left untrimmed
AttendeesSplitUntrimmed(attendeesArg) ==
    IF attendeesArg.kind = "absent" THEN << >>
    ELSE IF attendeesArg.kind = "list" THEN attendeesArg.items
    ELSE IF attendeesArg.kind = "string" THEN
        IF StartsWith(attendeesArg.text, "[") /\ EndsWith(attendeesArg.text, "]")
        THEN LET parsed == JSONParse(attendeesArg.text)
             IN  IF parsed.ok THEN parsed.value.v
                 ELSE << StrElem(Trim(attendeesArg.text)) >>
        ELSE LET parts == Split(attendeesArg.text)
             IN  [i \in 1..Len(parts) |-> StrElem(parts[i])]
    ELSE << >>

\* the attendees block of createCalendarEvent
createCalendarEventAttendees(attendeesArg) ==
    LET rawAttendees == IF attendeesArg.kind = "absent" THEN ListArg(<< >>)
                        ELSE attendeesArg
    IN  IF rawAttendees.kind = "list" THEN rawAttendees.items
        ELSE IF rawAttendees.kind = "string" THEN
            IF StartsWith(rawAttendees.text, "[") /\ EndsWith(rawAttendees.text, "]")
            THEN LET parsed == JSONParse(rawAttendees.text)
                 IN  IF parsed.ok THEN parsed.value.v
                     ELSE << StrElem(Trim(rawAttendees.text)) >>
            ELSE SplitTrim(rawAttendees.text)
        ELSE << >>

\* the attendees block of createCalendarLink
createCalendarLinkAttendees(attendeesArg) ==
    LET rawAttendees == IF attendeesArg.kind = "absent" THEN ListArg(<< >>)
                        ELSE attendeesArg
    IN  IF rawAttendees.kind = "list" THEN rawAttendees.items
        ELSE IF rawAttendees.kind = "string" THEN
            IF StartsWith(rawAttendees.text, "[") /\ EndsWith(rawAttendees.text, "]")
            THEN LET parsed == JSONParse(rawAttendees.text)
                 IN  IF parsed.ok THEN parsed.value.v
                     ELSE << StrElem(Trim(rawAttendees.text)) >>
            ELSE SplitTrim(rawAttendees.text)
        ELSE << >>

\* eventIds.includes(event.id) in generateICS: Array.prototype.includes for a
\* native list, String.prototype.includes for a string; "threw" when eventIds
\* has no includes method (undefined, a number)
EventIdsInclude(eventIds, id) ==
    IF eventIds.kind = "list" THEN ArrIncludes(eventIds.items, id)
    ELSE IF eventIds.kind = "string" THEN StrIncludes(eventIds.text, id)
    ELSE FALSE

\* the filter of generateICS over context.events: [threw, selected]
generateICSSelect(evs, eventIds) ==
    IF eventIds.kind \notin {"list", "string"} /\ Len(evs) > 0
    THEN [threw |-> TRUE, selected |-> << >>]
    ELSE LET selectedEvents == SelectSeq(evs, LAMBDA e : EventIdsInclude(eventIds, e.id))
         IN  [threw |-> Len(selectedEvents) = 0, selected |-> selectedEvents]

\* generateEventICS on an event whose attendees value is `attendees`: the
\* attendee lines are written by attendees.forEach when attendees.length > 0,
\* and only an array has forEach
AttendeeLinesThrow(attendees) ==
    attendees.kind = "string" /\ Len(attendees.text) > 0

\* suggestMeetingTimes for the slots the scheduler suggested: attendees is used
\* as destructured (default [] when absent); every proposal builds a calendar
\* link and the ICS text of the slot
suggestMeetingTimesProposals(attendeesArg, suggestions) ==
    LET attendees == IF attendeesArg.kind = "absent" THEN ListArg(<< >>)
                     ELSE attendeesArg
    IN  IF Len(suggestions) > 0 /\ AttendeeLinesThrow(attendees)
        THEN [threw |-> TRUE, attendees |-> attendees, totalSlots |-> 0]
        ELSE [threw |-> FALSE, attendees |-> attendees,
              totalSlots |-> Len(suggestions)]

-----------------------------------------------------------------------------
(* ToolDispatcher: the duplicate-call cache *)

\* the window of checkForDuplicateCall, milliseconds
DuplicateWindowMs == 10000
\* addToRecentCalls keeps the last MaxRecentCalls calls
MaxRecentCalls == 5

Names == {"Joe", "Dan", "Sally"}

\* a context string: which of the three names it contains, whether it
\* contains one of the explicit group phrases createEmailDraft looks for in
\* the context (groupSpecific), whether it contains 'one email', 'single
\* email', 'email to all' or 'email for all' (groupWord), and the email
\* addresses the address pattern finds in it
NoContext == [present |-> FALSE, names |-> {}, groupSpecific |-> FALSE,
              groupWord |-> FALSE, emails |-> << >>]

\* a user message: whether it contains one of the group phrases, one of the
\* phrases asking for an email per person (each), one of the three names, one
\* of the words 'individual', 'each', 'separate' (eachWord)
NoMessage == [present |-> FALSE, group |-> FALSE, each |-> FALSE,
              names |-> FALSE, eachWord |-> FALSE]

\* (parameters.context || '').includes('Joe') && ... 'Dan' && ... 'Sally'
ContextNamesAllThree(context) == Names \subseteq context.names

\* the predicate of recentFunctionCalls.find in checkForDuplicateCall
IsDuplicateOf(call, functionName, parameters) ==
    /\ call.function = functionName
    /\ functionName = "create_email_draft"
    /\ ContextNamesAllThree(parameters.context)
    /\ ContextNamesAllThree(call.parameters.context)

NoResult == [id |-> 0]

\* checkForDuplicateCall answering with the last duplicate instead of the first
checkForDuplicateCallLastMatch(calls, functionName, parameters, t) ==
    LET tenSecondsAgo == t - DuplicateWindowMs
        kept == SelectSeq(calls, LAMBDA call : call.timestamp > tenSecondsAgo)
        dups == SelectSeq(kept, LAMBDA call : IsDuplicateOf(call, functionName, parameters))
    IN  [calls |-> kept,
         response |-> IF Len(dups) > 0 THEN dups[Len(dups)].response ELSE NoResult]

\* checkForDuplicateCall restarting the window of the entry it answers with
checkForDuplicateCallRefreshing(calls, functionName, parameters, t) ==
    LET tenSecondsAgo == t - DuplicateWindowMs
        kept == SelectSeq(calls, LAMBDA call : call.timestamp > tenSecondsAgo)
        dups == { k \in 1..Len(kept) : IsDuplicateOf(kept[k], functionName, parameters) }
        first == CHOOSE k \in dups : \A m \in dups : k <= m
    IN  IF dups = {} THEN [calls |-> kept, response |-> NoResult]
        ELSE [calls |-> [kept EXCEPT ![first].timestamp = t],
              response |-> kept[first].response]

\* checkForDuplicateCall at time t: the cache without the entries that are
\* DuplicateWindowMs old or older, and the response of the first duplicate
\* among the rest (NoResult when there is none)
checkForDuplicateCall(calls, functionName, parameters, t) ==
    LET tenSecondsAgo == t - DuplicateWindowMs
        kept == SelectSeq(calls, LAMBDA call : call.timestamp > tenSecondsAgo)
        dups == SelectSeq(kept, LAMBDA call : IsDuplicateOf(call, functionName, parameters))
    IN  [calls |-> kept,
         response |-> IF Len(dups) > 0 THEN dups[1].response ELSE NoResult]

\* addToRecentCalls without the shift of the oldest entry
addToRecentCallsNoShift(calls, functionName, parameters, response, t) ==
    Append(calls, [function |-> functionName, parameters |-> parameters,
                   timestamp |-> t, response |-> response])

\* addToRecentCalls at time t
addToRecentCalls(calls, functionName, parameters, response, t) ==
    LET pushed == Append(calls, [function |-> functionName, parameters |-> parameters,
                                 timestamp |-> t, response |-> response])
    IN  IF Len(pushed) > MaxRecentCalls THEN Tail(pushed) ELSE pushed

-----------------------------------------------------------------------------
(* ToolDispatcher: create_email_draft *)

\* 'joe@gmail.com', 'dan@gmail.com', 'sally@gmail.com'
FallbackTriple == << <<"j">>, <<"d">>, <<"s">> >>

\* 'recipient@example.com'
DefaultRecipient == <<"r">>

\* !to
Falsy(to) == to.kind = "absent" \/ (to.kind = "string" /\ Len(to.text) = 0)

ElemValues(elems) == [i \in 1..Len(elems) |-> elems[i].v]

TrimAll(list) == [i \in 1..Len(list) |-> Trim(list[i])]

\* !to || (Array.isArray(to) && to.length === 0) || to.trim() === ''
ToIsEmpty(to) ==
    \/ Falsy(to)
    \/ to.kind = "list" /\ Len(to.items) = 0
    \/ to.kind = "string" /\ Len(Trim(to.text)) = 0

extractNamesFromContext(context, to) ==
    IF to.kind = "list" THEN ElemValues(to.items)
    ELSE IF to.kind = "string" /\ StrIncludes(to.text, <<",">>)
         THEN TrimAll(Split(to.text))
    ELSE IF to.kind = "string" /\ ~Falsy(to) /\ Len(Trim(to.text)) > 0
         THEN << Trim(to.text) >>
    ELSE IF context.present /\ Len(context.emails) > 0 THEN context.emails
    ELSE FallbackTriple

\* the recipients createGroupEmail addresses its one email to
createGroupEmailRecipients(parameters) ==
    LET to == parameters.to
    IN  IF to.kind = "list" THEN ElemValues(to.items)
        ELSE IF to.kind = "string" /\ StrIncludes(to.text, <<",">>)
             THEN TrimAll(Split(to.text))
        ELSE extractNamesFromContext(parameters.context, to)

\* the names createMultipleMeetingEmails writes one email each to
createMultipleMeetingEmailsNames(parameters) ==
    extractNamesFromContext(parameters.context, parameters.to)

hasMultipleRecipientsListOnly(to) ==
    to.kind = "list" /\ Len(to.items) > 1

hasMultipleRecipients(to) ==
    \/ to.kind = "list" /\ Len(to.items) > 1
    \/ to.kind = "string" /\ StrIncludes(to.text, <<",">>)

isGroupEmailRequest(parameters) ==
    \/ parameters.userMessage.present /\ parameters.userMessage.group
    \/ parameters.context.present /\ parameters.context.groupSpecific

isMultipleEmailRequest(parameters) ==
    \/ parameters.userMessage.present /\ parameters.userMessage.each
    \/ /\ parameters.context.present
       /\ ~parameters.userMessage.present
       /\ parameters.context.names # {}
       /\ ~parameters.context.groupWord

\* createEmailDraft: [threw, kind, recipients, parameters], parameters being
\* the argument object as the handler leaves it (the group branch fills in
\* parameters.to)
createEmailDraft(parameters) ==
    IF hasMultipleRecipients(parameters.to)
    THEN [threw |-> FALSE, kind |-> "group",
          recipients |-> createGroupEmailRecipients(parameters),
          parameters |-> parameters]
    ELSE IF isGroupEmailRequest(parameters)
    THEN LET filled == IF ToIsEmpty(parameters.to)
                       THEN [parameters EXCEPT
                               !.to = StringArg(Join(FallbackTriple, <<",">>))]
                       ELSE parameters
         IN  [threw |-> FALSE, kind |-> "group",
              recipients |-> createGroupEmailRecipients(filled),
              parameters |-> filled]
    ELSE IF \/ isMultipleEmailRequest(parameters)
            \/ parameters.context.present /\ parameters.context.names # {}
            \/ /\ parameters.userMessage.present
               /\ parameters.userMessage.names
               /\ parameters.userMessage.eachWord
    THEN [threw |-> FALSE, kind |-> "multiple",
          recipients |-> createMultipleMeetingEmailsNames(parameters),
          parameters |-> parameters]
    ELSE IF parameters.emailType = "meeting_confirmation" /\ parameters.to.kind # "string"
    THEN \* to.split('@') on a value that is no string
         [threw |-> TRUE, kind |-> "single", recipients |-> << >>,
          parameters |-> parameters]
    ELSE [threw |-> FALSE, kind |-> "single",
          recipients |-> IF Falsy(parameters.to) THEN << DefaultRecipient >>
                         ELSE IF parameters.to.kind = "list"
                              THEN ElemValues(parameters.to.items)
                              ELSE << parameters.to.text >>,
          parameters |-> parameters]

-----------------------------------------------------------------------------
(* ToolDispatcher: create_calendar_event, generate_ics, create_meeting_followup *)

\* an event of context.events: its id, its title (NoTitle when the title is
\* undefined), whether its start and end are valid dates, its attendees, and
\* its url (the remote htmlLink, or NoUrl for a locally synthesised event)
NoTitle == <<"undefined">>
NoUrl == << >>
HtmlLink == <<"htmlLink">>

DigitChars == <<"0", "1", "2", "3", "4", "5", "6", "7", "8", "9">>

\* the n-th fresh id with the given prefix: ids the server assigns, and the
\* ids `event-${Date.now()}-${random}` of the catch branch
FreshId(prefix, n) ==
    <<prefix, DigitChars[((n \div 10) % 10) + 1], DigitChars[(n % 10) + 1]>>

\* generateSingleEventICS / generateICS throw on an event whose date is
\* invalid (formatDate: toISOString) or whose title is undefined (escapeText)
IcsThrows(event) == ~event.datesOk \/ event.title = NoTitle

\* calendarService.createEvent before any request is sent: "noToken" when no
\* access token is set, "badDate" when startTime.toISOString() throws,
\* otherwise the request goes out ("fetch")
createEventRequest(token, parameters) ==
    IF ~token THEN "noToken"
    ELSE IF ~parameters.datesOk THEN "badDate"
    ELSE "fetch"

\* the try branch of createCalendarEvent after the remote call succeeded
normalizedEvent(parameters, attendees, remoteId) ==
    [id |-> remoteId, title |-> parameters.title, datesOk |-> TRUE,
     attendees |-> attendees, url |-> HtmlLink]

\* the event the catch branch of createCalendarEvent synthesises
localEvent(parameters, attendees, eventId) ==
    [id |-> eventId, title |-> parameters.title, datesOk |-> parameters.datesOk,
     attendees |-> attendees, url |-> NoUrl]

\* generateICS: [threw, generator, eventCount]; the selected events are added
\* to the shared generator before the text is produced, so a throw of
\* downloadICS leaves them behind
generateICS(evs, generator, eventIds) ==
    LET sel == generateICSSelect(evs, eventIds)
    IN  IF sel.threw
        THEN [threw |-> TRUE, generator |-> generator, eventCount |-> 0]
        ELSE LET added == generator \o sel.selected
             IN  [threw |-> \E k \in 1..Len(added) : IcsThrows(added[k]),
                  generator |-> added,
                  eventCount |-> Len(sel.selected)]

\* createMeetingFollowup: "not_found" (the structured error object),
\* "threw" (attendeeEmail.split on undefined) or "followup"
createMeetingFollowup(evs, parameters) ==
    IF ~\E k \in 1..Len(evs) : evs[k].title = parameters.eventTitle
    THEN "not_found"
    ELSE IF ~parameters.attendeeEmail THEN "threw"
    ELSE "followup"

\* the names of the switch of executeFunction
RegisteredFunctions ==
    {"fetch_events", "create_email_draft", "create_meeting_followup",
     "suggest_meeting_times", "generate_productivity_report",
     "create_email_template", "optimize_schedule", "create_calendar_event",
     "create_calendar_link", "generate_ics"}

SideEffecting == {"create_email_draft", "create_calendar_event"}

-----------------------------------------------------------------------------
(* The state after construction (App.tsx: the module-level singletons) *)

\* the executeFunction invocations that may be in flight together
Slots == {1, 2}

NoParameters == [none |-> TRUE]

\* an invocation: where it stands (pc), the call, Date.now() when it started,
\* its result or the error it rejected with, whether the result came from
\* the cache (hit), whether the handler body ran, the state of the remote
\* create call and the HTTP status it ended with (0: no response), how many
\* remote create calls it issued and whether one succeeded, how many events
\* it pushed to context.events, whether it inserted its call into the
\* cache, and how many entries of `recorded` there were when it started
IdleInvocation ==
    [pc |-> "idle", fn |-> "", parameters |-> NoParameters, startedAt |-> 0,
     result |-> NoResult, error |-> "", hit |-> FALSE, ran |-> FALSE,
     pending |-> "none", status |-> 0, remoteCalls |-> 0, remoteOk |-> FALSE,
     appended |-> 0, inserted |-> FALSE, recordedAtStart |-> 0]

NoAvailability == [available |-> FALSE, conflicts |-> {}]

SchedulerAtRest ==
    /\ schedEvents = {}
    /\ query = [duration |-> 30, startDate |-> 0, endDate |-> 0,
                preferredTime |-> NoWindow]
    /\ slots = << >>
    /\ schedPc = "input"
    /\ availability = NoAvailability

DispatcherAtRest ==
    /\ events = << >>
    /\ recentFunctionCalls = << >>
    /\ icsGeneratorEvents = << >>
    /\ hasToken = FALSE
    /\ now = 0
    /\ inv = [i \in Slots |-> IdleInvocation]
    /\ budget = 0
    /\ nextResult = 0
    /\ recorded = << >>

NoOutput == [op |-> "none"]

NormAtRest ==
    /\ normIn = [enc |-> "native", list |-> << >>, raw |-> ListArg(<< >>)]
    /\ normOut = NoOutput
    /\ normPc = "input"

\* no LLM response has been handled
NoFunctionCalls == [calls |-> << >>, message |-> Absent]

NoChat == [shown |-> "nothing", results |-> << >>, error |-> ""]

ChatAtRest ==
    /\ functionCalls = NoFunctionCalls
    /\ chat = NoChat

-----------------------------------------------------------------------------
(* Date recalculation (shouldRecalculateDates, parseNaturalLanguageDate)    *)
(* A date is [valid, time]: new Date(text) of a text that is no date is the *)
(* Invalid Date, which compares false with everything.                      *)

InvalidDate == [valid |-> FALSE, time |-> 0]
DateAt(t) == [valid |-> TRUE, time |-> t]

UpperCase == << "A", "B", "C", "D", "E", "F", "G", "H", "I", "J", "K", "L", "M",
                "N", "O", "P", "Q", "R", "S", "T", "U", "V", "W", "X", "Y", "Z" >>
LowerCase == << "a", "b", "c", "d", "e", "f", "g", "h", "i", "j", "k", "l", "m",
                "n", "o", "p", "q", "r", "s", "t", "u", "v", "w", "x", "y", "z" >>

ToLowerCaseIdentity(s) == s

\* String.prototype.toLowerCase
ToLowerCase(s) ==
    [i \in 1..Len(s) |->
        IF \E k \in 1..26 : UpperCase[k] = s[i]
        THEN LowerCase[CHOOSE k \in 1..26 : UpperCase[k] = s[i]]
        ELSE s[i]]

IsDigit(c) == \E k \in 1..10 : DigitChars[k] = c
DigitValue(c) == (CHOOSE k \in 1..10 : DigitChars[k] = c) - 1

\* parseInt of a run of digits
RECURSIVE ParseInt(_)
ParseInt(digits) ==
    IF Len(digits) = 0 THEN 0
    ELSE 10 * ParseInt(SubSeq(digits, 1, Len(digits) - 1))
         + DigitValue(digits[Len(digits)])

NextWord == << "n", "e", "x", "t" >>
HourWord == << "h", "o", "u", "r" >>

daysOfWeek ==
    << << "s", "u", "n", "d", "a", "y" >>,
       << "m", "o", "n", "d", "a", "y" >>,
       << "t", "u", "e", "s", "d", "a", "y" >>,
       << "w", "e", "d", "n", "e", "s", "d", "a", "y" >>,
       << "t", "h", "u", "r", "s", "d", "a", "y" >>,
       << "f", "r", "i", "d", "a", "y" >>,
       << "s", "a", "t", "u", "r", "d", "a", "y" >> >>

naturalLanguageIndicators ==
    << NextWord,
       << "t", "o", "m", "o", "r", "r", "o", "w" >>,
       << "t", "o", "d", "a", "y" >>,
       << "t", "h", "i", "s" >>,
       << "u", "p", "c", "o", "m", "i", "n", "g" >>,
       << "f", "o", "l", "l", "o", "w", "i", "n", "g" >>,
       daysOfWeek[2], daysOfWeek[3], daysOfWeek[4], daysOfWeek[5],
       daysOfWeek[6], daysOfWeek[7], daysOfWeek[1] >>

\* !userMessage: the message is undefined or the empty string
MessageFalsy(userMessage) ==
    userMessage.kind = "absent" \/ Len(userMessage.text) = 0

shouldRecalculateDatesUnguarded(startTime, userMessage, nowT) ==
    \/ startTime.date.valid /\ startTime.date.time < nowT
    \/ startTime.literal
    \/ \E k \in 1..Len(naturalLanguageIndicators) :
          StrIncludes(ToLowerCase(userMessage.text),
                      ToLowerCase(naturalLanguageIndicators[k]))

\* startTime is [date, literal]: what new Date(startTime) gives, and whether
\* the text includes '2024-01-10' or '2024-01-11'
shouldRecalculateDates(startTime, userMessage, nowT) ==
    IF MessageFalsy(userMessage) THEN FALSE
    ELSE \/ startTime.date.valid /\ startTime.date.time < nowT
         \/ startTime.literal
         \/ LET lowered == ToLowerCase(userMessage.text)
            IN  \E k \in 1..Len(naturalLanguageIndicators) :
                   StrIncludes(lowered, ToLowerCase(naturalLanguageIndicators[k]))

HasAt(s, i, w) ==
    i + Len(w) - 1 <= Len(s) /\ SubSeq(s, i, i + Len(w) - 1) = w

MeridiemAt(s, i) ==
    IF HasAt(s, i, << "a", "m" >>) THEN "am"
    ELSE IF HasAt(s, i, << "p", "m" >>) THEN "pm"
    ELSE "none"

NoMatch == [found |-> FALSE, digits |-> << >>, suffix |-> "none"]

\* the match of /(\d{1,2})\s*(am|pm)/i that starts at position i: two digits
\* first, one digit when the second character is no digit
TimeMatchAt(s, i) ==
    IF ~(i <= Len(s) /\ IsDigit(s[i])) THEN NoMatch
    ELSE LET n == IF i + 1 <= Len(s) /\ IsDigit(s[i + 1]) THEN 2 ELSE 1
             suffix == MeridiemAt(s, SkipWs(s, i + n))
         IN  IF suffix = "none" THEN NoMatch
             ELSE [found |-> TRUE, digits |-> SubSeq(s, i, i + n - 1),
                   suffix |-> suffix]

\* String.prototype.match: the leftmost match
RECURSIVE TimeMatchFrom(_, _)
TimeMatchFrom(s, i) ==
    IF i > Len(s) THEN NoMatch
    ELSE IF TimeMatchAt(s, i).found THEN TimeMatchAt(s, i)
    ELSE TimeMatchFrom(s, i + 1)

RECURSIVE DigitRunEnd(_, _)
DigitRunEnd(s, i) ==
    IF i <= Len(s) /\ IsDigit(s[i]) THEN DigitRunEnd(s, i + 1) ELSE i

\* the match of /(\d+)\s*hour/ that starts at position i
DurationMatchAt(s, i) ==
    IF ~(i <= Len(s) /\ IsDigit(s[i])) THEN NoMatch
    ELSE LET j == DigitRunEnd(s, i)
         IN  IF HasAt(s, SkipWs(s, j), HourWord)
             THEN [found |-> TRUE, digits |-> SubSeq(s, i, j - 1), suffix |-> "hour"]
             ELSE NoMatch

RECURSIVE DurationMatchFrom(_, _)
DurationMatchFrom(s, i) ==
    IF i > Len(s) THEN NoMatch
    ELSE IF DurationMatchAt(s, i).found THEN DurationMatchAt(s, i)
    ELSE DurationMatchFrom(s, i + 1)

\* the while loop of the 'next' branch: a day is added until the weekday is
\* the target, starting with the date of the call itself
RECURSIVE NextOccurrence(_, _)
NextOccurrence(targetDate, targetDay) ==
    IF GetDay(targetDate) # targetDay
    THEN NextOccurrence(AddDays(targetDate, 1), targetDay)
    ELSE targetDate

\* Date.setHours(hour, 0, 0, 0); an hour of 24 or more runs into later days
SetHoursExact(t, hour) == Midnight(t) + hour * 60

\* Date.setHours(hour): the minutes stay
SetHoursOnly(t, hour) == Midnight(t) + hour * 60 + (t % 60)

NoDates == [found |-> FALSE, start |-> 0, end |-> 0]

parseNaturalLanguageDate(userMessage, nowT) ==
    IF userMessage.kind # "string" THEN NoDates
    ELSE
    LET message == ToLowerCase(userMessage.text)
        named == { i \in 1..7 : StrIncludes(message, daysOfWeek[i]) }
    IN  IF named = {} THEN NoDates
        ELSE
        LET targetDay == (CHOOSE i \in named : \A j \in named : i <= j) - 1
            isNext == StrIncludes(message, NextWord)
            timeMatch == TimeMatchFrom(message, 1)
        IN  IF ~timeMatch.found THEN NoDates
            ELSE
            LET parsedHour == ParseInt(timeMatch.digits)
                isPM == timeMatch.suffix = "pm"
                hour == IF isPM /\ parsedHour # 12 THEN parsedHour + 12
                        ELSE IF ~isPM /\ parsedHour = 12 THEN 0
                        ELSE parsedHour
                durationMatch == DurationMatchFrom(message, 1)
                duration == IF durationMatch.found
                            THEN ParseInt(durationMatch.digits) ELSE 1
                currentDay == GetDay(nowT)
                daysUntilTarget == (targetDay - currentDay + 7) % 7
                onDay == IF isNext THEN NextOccurrence(nowT, targetDay)
                         ELSE AddDays(nowT, daysUntilTarget)
                targetDate == SetHoursExact(onDay, hour)
                endDate == SetHoursOnly(targetDate, getHours(targetDate) + duration)
            IN  [found |-> TRUE, start |-> targetDate, end |-> endDate]

\* the dates createCalendarLink goes on with
createCalendarLinkDates(startTime, endTime, userMessage, nowT) ==
    LET recalculate == shouldRecalculateDates(startTime, userMessage, nowT)
        recalculatedDates == IF recalculate
                             THEN parseNaturalLanguageDate(userMessage, nowT)
                             ELSE NoDates
    IN  [recalculate |-> recalculate,
         recalculatedDates |-> recalculatedDates,
         actualStart |-> IF recalculatedDates.found
                         THEN DateAt(recalculatedDates.start) ELSE startTime.date,
         actualEnd   |-> IF recalculatedDates.found
                         THEN DateAt(recalculatedDates.end) ELSE endTime.date]

NoDateOutput ==
    [recalculate |-> FALSE, recalculatedDates |-> NoDates,
     actualStart |-> InvalidDate, actualEnd |-> InvalidDate]

DatesAtRest ==
    /\ dateIn = [startTime |-> [date |-> InvalidDate, literal |-> FALSE],
                 endTime |-> [date |-> InvalidDate, literal |-> FALSE],
                 userMessage |-> Absent, now |-> 0]
    /\ dateOut = NoDateOutput
    /\ datePc = "input"

-----------------------------------------------------------------------------
(* create_email_draft on texts: the phrases createEmailDraft looks for in   *)
(* the user message and in the context, and what it finds in a given text   *)

\* the phrases of isGroupEmailRequest looked for in the user message
messageGroupPhrases ==
    << << "o", "n", "e", " ", "e", "m", "a", "i", "l", " ", "f", "o", "r", " ", "a", "l", "l", " ", "3", " ", "o", "f", " ", "t", "h", "e", "m" >>,
       << "o", "n", "e", " ", "e", "m", "a", "i", "l", " ", "t", "o", " ", "a", "l", "l", " ", "t", "h", "r", "e", "e" >>,
       << "o", "n", "e", " ", "e", "m", "a", "i", "l", " ", "f", "o", "r", " ", "a", "l", "l", " ", "t", "h", "r", "e", "e" >>,
       << "e", "m", "a", "i", "l", " ", "f", "o", "r", " ", "a", "l", "l", " ", "o", "f", " ", "t", "h", "e", "m" >>,
       << "o", "n", "e", " ", "e", "m", "a", "i", "l", " ", "t", "o", " ", "a", "l", "l" >>,
       << "s", "i", "n", "g", "l", "e", " ", "e", "m", "a", "i", "l", " ", "t", "o", " ", "a", "l", "l" >>,
       << "g", "r", "o", "u", "p", " ", "e", "m", "a", "i", "l" >>,
       << "e", "m", "a", "i", "l", " ", "t", "o", " ", "a", "l", "l", " ", "t", "h", "r", "e", "e" >>,
       << "o", "n", "e", " ", "e", "m", "a", "i", "l" >>,
       << "s", "i", "n", "g", "l", "e", " ", "e", "m", "a", "i", "l" >> >>

\* the phrases of isGroupEmailRequest looked for in the context
contextGroupPhrases ==
    << << "o", "n", "e", " ", "e", "m", "a", "i", "l", " ", "t", "o", " ", "a", "l", "l", " ", "t", "h", "r", "e", "e" >>,
       << "e", "m", "a", "i", "l", " ", "t", "o", " ", "a", "l", "l", " ", "t", "h", "r", "e", "e" >>,
       << "g", "r", "o", "u", "p", " ", "e", "m", "a", "i", "l", " ", "t", "o", " ", "a", "l", "l" >>,
       << "s", "i", "n", "g", "l", "e", " ", "e", "m", "a", "i", "l", " ", "t", "o", " ", "a", "l", "l", " ", "t", "h", "r", "e", "e" >> >>

\* the phrases of isMultipleEmailRequest looked for in the user message
messageEachPhrases ==
    << << "s", "h", "a", "r", "e", " ", "w", "i", "t", "h", " ", "e", "a", "c", "h", " ", "o", "f", " ", "t", "h", "e", "m" >>,
       << "e", "m", "a", "i", "l", " ", "d", "r", "a", "f", "t", " ", "I", " ", "c", "a", "n", " ", "s", "h", "a", "r", "e", " ", "w", "i", "t", "h", " ", "e", "a", "c", "h", " ", "o", "f", " ", "t", "h", "e", "m" >>,
       << "e", "m", "a", "i", "l", "s", " ", "f", "o", "r", " ", "e", "a", "c", "h", " ", "o", "f", " ", "t", "h", "e", "m" >>,
       << "i", "n", "d", "i", "v", "i", "d", "u", "a", "l", " ", "e", "m", "a", "i", "l", " ", "t", "o", " ", "e", "a", "c", "h", " ", "p", "e", "r", "s", "o", "n" >>,
       << "i", "n", "d", "i", "v", "i", "d", "u", "a", "l", " ", "e", "m", "a", "i", "l", " ", "t", "o", " ", "e", "a", "c", "h" >>,
       << "i", "n", "d", "i", "v", "i", "d", "u", "a", "l", " ", "e", "m", "a", "i", "l", "s", " ", "f", "o", "r", " ", "e", "a", "c", "h" >>,
       << "s", "e", "p", "a", "r", "a", "t", "e", " ", "e", "m", "a", "i", "l", " ", "f", "o", "r", " ", "e", "a", "c", "h" >>,
       << "e", "m", "a", "i", "l", " ", "f", "o", "r", " ", "e", "a", "c", "h", " ", "p", "e", "r", "s", "o", "n" >>,
       << "i", "n", "d", "i", "v", "i", "d", "u", "a", "l", " ", "e", "m", "a", "i", "l" >>,
       << "e", "a", "c", "h", " ", "p", "e", "r", "s", "o", "n" >>,
       << "e", "a", "c", "h", " ", "o", "f", " ", "t", "h", "e", "m" >>,
       << "s", "e", "p", "a", "r", "a", "t", "e", "l", "y" >> >>

\* the phrases that keep a context naming a person out of isMultipleEmailRequest
contextGroupWords ==
    << << "o", "n", "e", " ", "e", "m", "a", "i", "l" >>,
       << "s", "i", "n", "g", "l", "e", " ", "e", "m", "a", "i", "l" >>,
       << "e", "m", "a", "i", "l", " ", "t", "o", " ", "a", "l", "l" >>,
       << "e", "m", "a", "i", "l", " ", "f", "o", "r", " ", "a", "l", "l" >> >>

\* the words of the last fallback of createEmailDraft
messageEachWords ==
    << << "i", "n", "d", "i", "v", "i", "d", "u", "a", "l" >>,
       << "e", "a", "c", "h" >>,
       << "s", "e", "p", "a", "r", "a", "t", "e" >> >>

NameText(n) ==
    CASE n = "Joe"   -> << "J", "o", "e" >>
      [] n = "Dan"   -> << "D", "a", "n" >>
      [] n = "Sally" -> << "S", "a", "l", "l", "y" >>

IncludesAny(text, phrases) ==
    \E k \in 1..Len(phrases) : StrIncludes(text, phrases[k])

IsLetter(c) == \E k \in 1..26 : UpperCase[k] = c \/ LowerCase[k] = c

\* \w of a regular expression
IsWordChar(c) == IsLetter(c) \/ IsDigit(c) \/ c = "_"

\* the character classes of the address pattern of extractNamesFromContext
InClass(c, class) ==
    CASE class = "local"  -> IsLetter(c) \/ IsDigit(c) \/ c \in {".", "_", "%", "+", "-"}
      [] class = "domain" -> IsLetter(c) \/ IsDigit(c) \/ c \in {".", "-"}
      [] class = "tld"    -> IsLetter(c) \/ c = "|"

\* the first position from i on whose character is not of the class
RECURSIVE ClassRunEnd(_, _, _)
ClassRunEnd(s, i, class) ==
    IF i <= Len(s) /\ InClass(s[i], class) THEN ClassRunEnd(s, i + 1, class) ELSE i

\* \b between positions i - 1 and i
WordBoundary(s, i) ==
    (i - 1 >= 1 /\ i - 1 <= Len(s) /\ IsWordChar(s[i - 1]))
    # (i >= 1 /\ i <= Len(s) /\ IsWordChar(s[i]))

\* the match of /\b[A-Za-z0-9._%+-]+@[A-Za-z0-9.-]+\.[A-Z|a-z]{2,}\b/ that
\* starts at position i: the position after its last character, 0 when
\* there is none. The local part runs up to the @; the domain is cut at the
\* last dot that leaves two or more letters ending at a word boundary.
EmailMatchAt(s, i) ==
    IF ~(i <= Len(s) /\ InClass(s[i], "local") /\ WordBoundary(s, i)) THEN 0
    ELSE LET at == ClassRunEnd(s, i, "local")
         IN  IF ~(at <= Len(s) /\ s[at] = "@") THEN 0
             ELSE LET domainEnd == ClassRunEnd(s, at + 1, "domain")
                      ends(p) == { e \in (p + 3)..ClassRunEnd(s, p + 1, "tld") :
                                     WordBoundary(s, e) }
                      dots == { p \in (at + 2)..(domainEnd - 1) :
                                  s[p] = "." /\ ends(p) # {} }
                  IN  IF dots = {} THEN 0
                      ELSE LET p == CHOOSE x \in dots : \A y \in dots : y <= x
                           IN  CHOOSE e \in ends(p) : \A f \in ends(p) : f <= e

\* context.match(emailRegex) with the g flag: the matches from left to right
RECURSIVE EmailMatchesFrom(_, _)
EmailMatchesFrom(s, i) ==
    IF i > Len(s) THEN << >>
    ELSE LET e == EmailMatchAt(s, i)
         IN  IF e = 0 THEN EmailMatchesFrom(s, i + 1)
             ELSE << SubSeq(s, i, e - 1) >> \o EmailMatchesFrom(s, e)

\* what createEmailDraft and extractNamesFromContext find in a context
\* argument (absent, or a text)
ReadContext(context) ==
    IF context.kind # "string" \/ Len(context.text) = 0 THEN NoContext
    ELSE [present |-> TRUE,
          names |-> { n \in Names : StrIncludes(context.text, NameText(n)) },
          groupSpecific |-> IncludesAny(context.text, contextGroupPhrases),
          groupWord |-> IncludesAny(context.text, contextGroupWords),
          emails |-> EmailMatchesFrom(context.text, 1)]

\* what createEmailDraft finds in parameters.userMessage
ReadMessage(userMessage) ==
    IF userMessage.kind # "string" \/ Len(userMessage.text) = 0 THEN NoMessage
    ELSE [present |-> TRUE,
          group |-> IncludesAny(userMessage.text, messageGroupPhrases),
          each |-> IncludesAny(userMessage.text, messageEachPhrases),
          names |-> \E n \in Names : StrIncludes(userMessage.text, NameText(n)),
          eachWord |-> IncludesAny(userMessage.text, messageEachWords)]

-----------------------------------------------------------------------------
(* Inputs of the scheduler specification *)

\* times of day (minutes) at which an event of the snapshot may start
EventStartTimes == {540, 990, 1380}
\* event lengths in minutes; 720 carries a 23:00 event into the next morning
EventLengths == {60, 720}

EventPool ==
    { [startTime |-> d * MinutesPerDay + s, endTime |-> d * MinutesPerDay + s + l] :
        d \in 0..MaxDay, s \in EventStartTimes, l \in EventLengths }

\* the subsets of EventPool with at most k events
RECURSIVE SnapshotsUpTo(_)
SnapshotsUpTo(k) ==
    IF k = 0 THEN { {} }
    ELSE LET smaller == SnapshotsUpTo(k - 1)
         IN  smaller \cup { S \cup {e} : S \in smaller, e \in EventPool }

Snapshots == SnapshotsUpTo(MaxSchedEvents)

\* requested meeting lengths
Durations == {30, 60}
\* times of day of the startDate / endDate arguments
RangeTimes == {0, 570, 600}
RangeDates == { d * MinutesPerDay + t : d \in 0..MaxDay, t \in RangeTimes }
\* preferredTime arguments: absent, or the morning window
Windows == {NoWindow, [start |-> 540, end |-> 720]}

Queries ==
    { q \in [duration : Durations, startDate : RangeDates, endDate : RangeDates,
             preferredTime : Windows] : q.startDate <= q.endDate }

\* the intervals checkAvailability is asked about
AvailabilityTimes == {540, 600, 990, 1050}
AvailabilityQueries ==
    { [startTime |-> d * MinutesPerDay + t, endTime |-> d * MinutesPerDay + t + l] :
        d \in 0..MaxDay, t \in AvailabilityTimes, l \in Durations }

\* the calls of suggestOptimalMeetingTimes: the clock reading it takes as
\* today (10:00 on each day of a week), and its arguments. Where the whole
\* working day is searched a four-hour meeting is asked for, so that a week
\* holds fewer than 64 candidates.
SuggestTodays == { d * MinutesPerDay + 10 * 60 : d \in 0..6 }
SuggestDurations == {60, 4 * 60}
SuggestQueries ==
    { q \in [duration : SuggestDurations, preferredTime : PreferredTimes,
             urgency : Urgencies, today : SuggestTodays] :
        (q.preferredTime \in {"any", "absent"}) => (q.duration = 4 * 60) }

\* the snapshots a suggestion is computed on: empty, or one event on the day
\* of the call
SuggestSnapshots(today) ==
    { {} } \cup
    { { [startTime |-> Midnight(today) + s, endTime |-> Midnight(today) + s + l] } :
        s \in EventStartTimes, l \in EventLengths }

InitSched ==
    /\ \/ /\ schedEvents \in Snapshots
          /\ query \in Queries \cup AvailabilityQueries
       \/ /\ query \in SuggestQueries
          /\ schedEvents \in SuggestSnapshots(query.today)
    /\ slots = << >>
    /\ schedPc = "input"
    /\ availability = NoAvailability
    /\ DispatcherAtRest
    /\ NormAtRest
    /\ DatesAtRest
    /\ ChatAtRest

\* one call of findFreeSlots on the chosen inputs
FindFreeSlots ==
    /\ schedPc = "input"
    /\ "startDate" \in DOMAIN query
    /\ slots' = findFreeSlots(query.duration, query.startDate, query.endDate,
                              query.preferredTime)
    /\ schedPc' = "searched"
    /\ UNCHANGED <<schedEvents, query, availability>>
    /\ UNCHANGED <<dispVars, normVars, dateVars, chatVars>>

\* one call of checkAvailability on the chosen interval
CheckAvailability ==
    /\ schedPc = "input"
    /\ "startTime" \in DOMAIN query
    /\ availability' = checkAvailability(query.startTime, query.endTime)
    /\ schedPc' = "checked"
    /\ UNCHANGED <<schedEvents, query, slots>>
    /\ UNCHANGED <<dispVars, normVars, dateVars, chatVars>>

\* one call of suggestOptimalMeetingTimes
SuggestOptimalMeetingTimes ==
    /\ schedPc = "input"
    /\ "urgency" \in DOMAIN query
    /\ slots' = suggestOptimalMeetingTimes(query.duration, query.preferredTime,
                                           query.urgency, query.today)
    /\ schedPc' = "suggested"
    /\ UNCHANGED <<schedEvents, query, availability>>
    /\ UNCHANGED <<dispVars, normVars, dateVars, chatVars>>

NextSched ==
    \/ FindFreeSlots
    \/ CheckAvailability
    \/ SuggestOptimalMeetingTimes

SpecSched == InitSched /\ [][NextSched]_vars

-----------------------------------------------------------------------------
(* Inputs of the argument-handling specification: a list of strings in one  *)
(* of the encodings an LLM produces, or a free value                        *)

\* a list argument holds at most this many elements
MaxListLen == 2
\* a free string argument holds at most this many characters
MaxTextLen == 3

Chars == {"a", "b", "1", ",", " ", "[", "]", Quote}

\* the strings an attendee address or an event id may be
Words == { <<"a">>, <<"b">>, <<"a", "b">> }

RECURSIVE SeqsUpTo(_, _)
SeqsUpTo(S, n) ==
    IF n = 0 THEN { << >> }
    ELSE LET shorter == SeqsUpTo(S, n - 1)
         IN  shorter \cup { Append(q, x) : q \in shorter, x \in S }

WordLists == SeqsUpTo(Words, MaxListLen)

StrElems(list) == [i \in 1..Len(list) |-> StrElem(list[i])]


Quoted(list) == [i \in 1..Len(list) |-> <<Quote>> \o list[i] \o <<Quote>>]

\* JSON.stringify(list), and the same text with a space after each comma
JsonEncode(list, sep) == <<"[">> \o Join(Quoted(list), sep) \o <<"]">>

Encodings == {"native", "json", "jsonSpaced", "comma", "commaSpaced"}

Encode(enc, list) ==
    CASE enc = "native"      -> ListArg(StrElems(list))
      [] enc = "json"        -> StringArg(JsonEncode(list, <<",">>))
      [] enc = "jsonSpaced"  -> StringArg(JsonEncode(list, <<",", " ">>))
      [] enc = "comma"       -> StringArg(Join(list, <<",">>))
      [] enc = "commaSpaced" -> StringArg(Join(list, <<",", " ">>))

\* the empty list has no comma-separated encoding ("" splits to [""])
EncodedInputs ==
    { [enc |-> e, list |-> l, raw |-> Encode(e, l)] :
        e \in Encodings, l \in WordLists } \
    { [enc |-> e, list |-> << >>, raw |-> Encode(e, << >>)] :
        e \in {"comma", "commaSpaced"} }

FreeValues ==
    { StringArg(t) : t \in SeqsUpTo(Chars, MaxTextLen) }
    \cup { Absent, NumberArg(<<"1">>), ListArg(<< NumElem(<<"1">>) >>),
           ListArg(<< StrElem(<<"a">>), NumElem(<<"1">>) >>) }

FreeInputs == { [enc |-> "free", list |-> << >>, raw |-> v] : v \in FreeValues }

NormInputs == EncodedInputs \cup FreeInputs

\* the snapshots generate_ics selects from: ids that are substrings of one
\* another, as consecutive numeric ids are
IdEvent(id) ==
    [id |-> id, title |-> <<"t">>, datesOk |-> TRUE, attendees |-> << >>,
     url |-> HtmlLink]

NormSnapshots ==
    { << >>, << IdEvent(<<"a">>), IdEvent(<<"b">>), IdEvent(<<"a", "b">>) >> }

OneSlot == [start |-> 540, end |-> 570, duration |-> 30, isAvailable |-> TRUE]

InitNorm ==
    /\ normIn \in NormInputs
    /\ normOut = NoOutput
    /\ normPc = "input"
    /\ SchedulerAtRest
    /\ DatesAtRest
    /\ ChatAtRest
    /\ events \in NormSnapshots
    /\ recentFunctionCalls = << >>
    /\ icsGeneratorEvents = << >>
    /\ hasToken = FALSE
    /\ now = 0
    /\ inv = [i \in Slots |-> IdleInvocation]
    /\ budget = 0
    /\ nextResult = 0
    /\ recorded = << >>

\* create_calendar_event up to the end of its attendees block
NormalizeEventAttendees ==
    /\ normPc = "input"
    /\ normOut' = [op |-> "create_calendar_event", threw |-> FALSE,
                   attendees |-> createCalendarEventAttendees(normIn.raw)]
    /\ normPc' = "done"
    /\ UNCHANGED <<normIn, schedVars, dispVars, dateVars, chatVars>>

\* create_calendar_link up to the end of its attendees block
NormalizeLinkAttendees ==
    /\ normPc = "input"
    /\ normOut' = [op |-> "create_calendar_link", threw |-> FALSE,
                   attendees |-> createCalendarLinkAttendees(normIn.raw)]
    /\ normPc' = "done"
    /\ UNCHANGED <<normIn, schedVars, dispVars, dateVars, chatVars>>

\* generate_ics with the argument as eventIds: the events it selects
SelectForICS ==
    /\ normPc = "input"
    /\ LET sel == generateICSSelect(events, normIn.raw)
       IN  normOut' = [op |-> "generate_ics", threw |-> sel.threw,
                       selected |-> [k \in 1..Len(sel.selected) |-> sel.selected[k].id]]
    /\ normPc' = "done"
    /\ UNCHANGED <<normIn, schedVars, dispVars, dateVars, chatVars>>

\* suggest_meeting_times with the argument as attendees, the scheduler having
\* suggested no slot or one
SuggestWithAttendees ==
    /\ normPc = "input"
    /\ \E suggestions \in { << >>, << OneSlot >> } :
          LET r == suggestMeetingTimesProposals(normIn.raw, suggestions)
          IN  normOut' = [op |-> "suggest_meeting_times", threw |-> r.threw,
                          attendees |-> r.attendees, suggested |-> Len(suggestions),
                          totalSlots |-> r.totalSlots]
    /\ normPc' = "done"
    /\ UNCHANGED <<normIn, schedVars, dispVars, dateVars, chatVars>>

NextNorm ==
    \/ NormalizeEventAttendees
    \/ NormalizeLinkAttendees
    \/ SelectForICS
    \/ SuggestWithAttendees

SpecNorm == InitNorm /\ [][NextNorm]_vars

-----------------------------------------------------------------------------
(* The dispatcher: executeFunction invocations started by App.handleSendMessage *)
(* (Promise.all over the calls of one LLM response starts every invocation  *)
(* before any of them resumes)                                              *)

\* the caller starts at most this many calls
MaxCalls == 3
\* the caller of the cache specification starts at most this many calls
MaxCacheCalls == 7
\* the clock advances at most this many times
MaxTicks == 2

\* one advance of the clock: half the duplicate window
TickMs == DuplicateWindowMs \div 2

NamedContext ==
    [present |-> TRUE, names |-> Names, groupSpecific |-> FALSE,
     groupWord |-> FALSE, emails |-> << >>]

PlainContext ==
    [present |-> TRUE, names |-> {}, groupSpecific |-> FALSE,
     groupWord |-> FALSE, emails |-> << >>]

\* a chat message without any of the phrases createEmailDraft looks for
PlainMessage ==
    [present |-> TRUE, group |-> FALSE, each |-> FALSE, names |-> FALSE,
     eachWord |-> FALSE]

EmailBag(to, emailType, context) ==
    [to |-> to, emailType |-> emailType, context |-> context,
     userMessage |-> NoMessage]

\* the email calls of the cache specification: contexts with and without the
\* three names
CacheEmailBags ==
    { EmailBag(Absent, "meeting_request", NamedContext),
      EmailBag(StringArg(<<"a">>), "follow_up", PlainContext) }

EmailBags ==
    CacheEmailBags \cup
    { EmailBag(Absent, "meeting_confirmation", PlainContext),
      EmailBag(ListArg(<< StrElem(<<"a">>), StrElem(<<"b">>) >>), "follow_up",
               PlainContext) }

CalendarBags ==
    { [title |-> t, datesOk |-> d, attendees |-> StringArg(<<"a", ",", " ", "b">>)] :
        t \in { <<"t">>, NoTitle }, d \in BOOLEAN }

FollowupBags ==
    { [eventTitle |-> <<"t">>, attendeeEmail |-> a] : a \in BOOLEAN }

\* the events a refresh of the calendar loads
FetchedEvents ==
    << [id |-> FreshId("g", 0), title |-> <<"t">>, datesOk |-> TRUE,
        attendees |-> << >>, url |-> HtmlLink] >>

\* a promise that settles without waiting for the network is pending: no
\* timer, response or user input is handled before it has settled
MicrotasksPending ==
    \E i \in Slots :
        \/ inv[i].pc = "awaitEmail"
        \/ inv[i].pc = "awaitRemote" /\ inv[i].pending # "fetch"

InitDispatcherWith(calls, tokens) ==
    /\ events = << >>
    /\ recentFunctionCalls = << >>
    /\ icsGeneratorEvents = << >>
    /\ hasToken \in tokens
    /\ now = 0
    /\ inv = [i \in Slots |-> IdleInvocation]
    /\ budget = calls
    /\ nextResult = 0
    /\ recorded = << >>
    /\ SchedulerAtRest
    /\ NormAtRest
    /\ DatesAtRest
    /\ ChatAtRest

\* signed in (setAccessToken was called) or not
Init == InitDispatcherWith(MaxCalls, BOOLEAN)

InitCache == InitDispatcherWith(MaxCacheCalls, {TRUE})

InFlight == {"awaitEmail", "awaitRemote"}

\* a new invocation takes the first slot that holds no invocation in flight
\* (the outcome of a settled one has been handed to the caller)
FreeSlot(i) ==
    /\ inv[i].pc \notin InFlight
    /\ \A j \in Slots : j < i => inv[j].pc \in InFlight

\* the start of every invocation: the fields executeFunction fills in before
\* the switch
Started(functionName, parameters) ==
    [IdleInvocation EXCEPT !.fn = functionName, !.parameters = parameters,
                           !.startedAt = now,
                           !.recordedAtStart = Len(recorded)]

\* executeFunction('create_email_draft') up to the await of the handler: the
\* duplicate check purges the cache and may answer from it; otherwise the
\* user message is added to the arguments and createEmailDraft runs
StartEmailDraft(i, bag, userMessage) ==
    /\ FreeSlot(i)
    /\ budget > 0
    /\ budget' = budget - 1
    /\ LET chk == checkForDuplicateCall(recentFunctionCalls, "create_email_draft", bag, now)
           parameters == [bag EXCEPT !.userMessage = userMessage]
           draft == createEmailDraft(parameters)
       IN  /\ recentFunctionCalls' = chk.calls
           /\ IF chk.response # NoResult
              THEN /\ inv' = [inv EXCEPT ![i] =
                         [Started("create_email_draft", bag) EXCEPT
                             !.pc = "resolved", !.hit = TRUE,
                             !.result = chk.response]]
                   /\ UNCHANGED nextResult
              ELSE IF draft.threw
              THEN /\ inv' = [inv EXCEPT ![i] =
                         [Started("create_email_draft", parameters) EXCEPT
                             !.pc = "rejected", !.ran = TRUE,
                             !.error = "TypeError"]]
                   /\ UNCHANGED nextResult
              ELSE /\ inv' = [inv EXCEPT ![i] =
                         [Started("create_email_draft", draft.parameters) EXCEPT
                             !.pc = "awaitEmail", !.ran = TRUE,
                             !.result = [id |-> nextResult + 1, kind |-> draft.kind,
                                         recipients |-> draft.recipients]]]
                   /\ nextResult' = nextResult + 1
    /\ UNCHANGED <<events, icsGeneratorEvents, hasToken, now, recorded>>
    /\ UNCHANGED <<schedVars, normVars, dateVars, chatVars>>

\* executeFunction('create_email_draft') after the await: addToRecentCalls,
\* then the result is returned
ResumeEmailDraft(i) ==
    /\ inv[i].pc = "awaitEmail"
    /\ recentFunctionCalls' =
           addToRecentCalls(recentFunctionCalls, inv[i].fn, inv[i].parameters,
                            inv[i].result, now)
    /\ recorded' = IF ContextNamesAllThree(inv[i].parameters.context)
                   THEN Append(recorded, [timestamp |-> now,
                                          response |-> inv[i].result])
                   ELSE recorded
    /\ inv' = [inv EXCEPT ![i].pc = "resolved", ![i].inserted = TRUE]
    /\ UNCHANGED <<events, icsGeneratorEvents, hasToken, now, budget, nextResult>>
    /\ UNCHANGED <<schedVars, normVars, dateVars, chatVars>>

\* executeFunction('create_calendar_event') up to the await of
\* calendarService.createEvent
StartCalendarEvent(i, bag) ==
    /\ FreeSlot(i)
    /\ budget > 0
    /\ budget' = budget - 1
    /\ LET chk == checkForDuplicateCall(recentFunctionCalls, "create_calendar_event", bag, now)
       IN  /\ recentFunctionCalls' = chk.calls
           /\ inv' = [inv EXCEPT ![i] =
                  [Started("create_calendar_event", bag) EXCEPT
                      !.pc = "awaitRemote", !.ran = TRUE,
                      !.pending = createEventRequest(hasToken, bag),
                      !.remoteCalls = 1]]
    /\ UNCHANGED <<events, icsGeneratorEvents, hasToken, now, nextResult, recorded>>
    /\ UNCHANGED <<schedVars, normVars, dateVars, chatVars>>

\* the remote call answered 200: the try branch of createCalendarEvent
RemoteCreateSucceeds(i) ==
    /\ inv[i].pc = "awaitRemote"
    /\ inv[i].pending = "fetch"
    /\ ~MicrotasksPending
    /\ LET attendees == createCalendarEventAttendees(inv[i].parameters.attendees)
           created == normalizedEvent(inv[i].parameters, attendees,
                                      FreshId("g", nextResult + 1))
       IN  /\ events' = Append(events, created)
           /\ inv' = [inv EXCEPT ![i].pc = "resolved", ![i].status = 200,
                                 ![i].remoteOk = TRUE,
                                 ![i].appended = inv[i].appended + 1,
                                 ![i].result =
                                     [id |-> nextResult + 1, kind |-> "committed",
                                      eventId |-> created.id,
                                      calendarUrl |-> created.url,
                                      icsContent |-> FALSE]]
    /\ nextResult' = nextResult + 1
    /\ UNCHANGED <<recentFunctionCalls, icsGeneratorEvents, hasToken, now, budget, recorded>>
    /\ UNCHANGED <<schedVars, normVars, dateVars, chatVars>>

\* the statuses a failed remote call ends with: 0 when createEvent threw
\* before a response came (no token, an invalid date, a network error)
FailureStatuses == {0, 401, 403, 500}

\* the remote call failed: the catch branch of createCalendarEvent pushes the
\* local event, then builds the deep link and the ICS text
RemoteCreateFails(i, status) ==
    /\ inv[i].pc = "awaitRemote"
    /\ IF inv[i].pending = "fetch" THEN ~MicrotasksPending ELSE status = 0
    /\ LET attendees == createCalendarEventAttendees(inv[i].parameters.attendees)
           event == localEvent(inv[i].parameters, attendees,
                               FreshId("e", nextResult + 1))
       IN  /\ events' = Append(events, event)
           /\ IF IcsThrows(event)
              THEN inv' = [inv EXCEPT ![i].pc = "rejected", ![i].status = status,
                                      ![i].appended = inv[i].appended + 1,
                                      ![i].error = IF event.datesOk THEN "TypeError"
                                                   ELSE "RangeError"]
              ELSE inv' = [inv EXCEPT ![i].pc = "resolved", ![i].status = status,
                                      ![i].appended = inv[i].appended + 1,
                                      ![i].result =
                                          [id |-> nextResult + 1, kind |-> "fallback",
                                           eventId |-> event.id,
                                           calendarUrl |-> <<"deeplink">>,
                                           icsContent |-> TRUE]]
    /\ nextResult' = nextResult + 1
    /\ UNCHANGED <<recentFunctionCalls, icsGeneratorEvents, hasToken, now, budget, recorded>>
    /\ UNCHANGED <<schedVars, normVars, dateVars, chatVars>>

\* the ids of the snapshot as a native list
SnapshotIds == ListArg([k \in 1..Len(events) |-> StrElem(events[k].id)])

\* executeFunction('generate_ics'): the handler has no remote call
GenerateICS(i, eventIds) ==
    /\ FreeSlot(i)
    /\ budget > 0
    /\ budget' = budget - 1
    /\ LET chk == checkForDuplicateCall(recentFunctionCalls, "generate_ics",
                                        [eventIds |-> eventIds], now)
           r == generateICS(events, icsGeneratorEvents, eventIds)
       IN  /\ recentFunctionCalls' = chk.calls
           /\ icsGeneratorEvents' = r.generator
           /\ IF r.threw
              THEN /\ inv' = [inv EXCEPT ![i] =
                         [Started("generate_ics", [eventIds |-> eventIds]) EXCEPT
                             !.pc = "rejected", !.ran = TRUE,
                             !.error = IF r.generator = icsGeneratorEvents
                                       THEN "No events found with the provided IDs"
                                       ELSE "TypeError"]]
                   /\ UNCHANGED nextResult
              ELSE /\ inv' = [inv EXCEPT ![i] =
                         [Started("generate_ics", [eventIds |-> eventIds]) EXCEPT
                             !.pc = "resolved", !.ran = TRUE,
                             !.result = [id |-> nextResult + 1, kind |-> "ics",
                                         eventCount |-> r.eventCount]]]
                   /\ nextResult' = nextResult + 1
    /\ UNCHANGED <<events, hasToken, now, recorded>>
    /\ UNCHANGED <<schedVars, normVars, dateVars, chatVars>>

\* executeFunction('create_meeting_followup')
MeetingFollowup(i, bag) ==
    /\ FreeSlot(i)
    /\ budget > 0
    /\ budget' = budget - 1
    /\ LET chk == checkForDuplicateCall(recentFunctionCalls, "create_meeting_followup", bag, now)
           outcome == createMeetingFollowup(events, bag)
       IN  /\ recentFunctionCalls' = chk.calls
           /\ IF outcome = "threw"
              THEN /\ inv' = [inv EXCEPT ![i] =
                         [Started("create_meeting_followup", bag) EXCEPT
                             !.pc = "rejected", !.ran = TRUE, !.error = "TypeError"]]
                   /\ UNCHANGED nextResult
              ELSE /\ inv' = [inv EXCEPT ![i] =
                         [Started("create_meeting_followup", bag) EXCEPT
                             !.pc = "resolved", !.ran = TRUE,
                             !.result = [id |-> nextResult + 1, kind |-> outcome,
                                         error |-> outcome = "not_found"]]]
                   /\ nextResult' = nextResult + 1
    /\ UNCHANGED <<events, icsGeneratorEvents, hasToken, now, recorded>>
    /\ UNCHANGED <<schedVars, normVars, dateVars, chatVars>>

\* executeFunction with a name the switch does not know: the duplicate check
\* runs, then the default branch throws
UnknownFunction(i, functionName) ==
    /\ FreeSlot(i)
    /\ budget > 0
    /\ budget' = budget - 1
    /\ LET chk == checkForDuplicateCall(recentFunctionCalls, functionName, NoParameters, now)
       IN  /\ recentFunctionCalls' = chk.calls
           /\ inv' = [inv EXCEPT ![i] =
                  [Started(functionName, NoParameters) EXCEPT
                      !.pc = "rejected", !.error = "Unknown function"]]
    /\ UNCHANGED <<events, icsGeneratorEvents, hasToken, now, nextResult, recorded>>
    /\ UNCHANGED <<schedVars, normVars, dateVars, chatVars>>

\* App.loadCalendarEvents: context.events is replaced by the fetched list
RefreshEvents ==
    /\ ~MicrotasksPending
    /\ events # FetchedEvents
    /\ events' = FetchedEvents
    /\ UNCHANGED <<recentFunctionCalls, icsGeneratorEvents, hasToken, now, inv,
                   budget, nextResult, recorded>>
    /\ UNCHANGED <<schedVars, normVars, dateVars, chatVars>>

\* time passes
Tick ==
    /\ ~MicrotasksPending
    /\ now < MaxTicks * TickMs
    /\ now' = now + TickMs
    /\ UNCHANGED <<events, recentFunctionCalls, icsGeneratorEvents, hasToken,
                   inv, budget, nextResult, recorded>>
    /\ UNCHANGED <<schedVars, normVars, dateVars, chatVars>>

Next ==
    \/ \E i \in Slots, bag \in EmailBags : StartEmailDraft(i, bag, PlainMessage)
    \/ \E i \in Slots : ResumeEmailDraft(i)
    \/ \E i \in Slots, bag \in CalendarBags : StartCalendarEvent(i, bag)
    \/ \E i \in Slots : RemoteCreateSucceeds(i)
    \/ \E i \in Slots, status \in FailureStatuses : RemoteCreateFails(i, status)
    \/ \E i \in Slots, eventIds \in {SnapshotIds, ListArg(<< StrElem(<<"x">>) >>)} :
          GenerateICS(i, eventIds)
    \/ \E i \in Slots, bag \in FollowupBags : MeetingFollowup(i, bag)
    \/ \E i \in Slots : UnknownFunction(i, "delete_event")
    \/ RefreshEvents
    \/ Tick

Spec == Init /\ [][Next]_vars

\* the email calls alone, enough of them to fill the cache
NextCache ==
    \/ \E i \in Slots, bag \in CacheEmailBags : StartEmailDraft(i, bag, PlainMessage)
    \/ \E i \in Slots : ResumeEmailDraft(i)
    \/ Tick

SpecCache == InitCache /\ [][NextCache]_vars

-----------------------------------------------------------------------------
(* Inputs of the email specification: the arguments of create_email_draft   *)
(* as texts                                                                 *)

EmailContexts ==
    { Absent,
      StringArg(<<  >>),
      StringArg(<< "w", "e", "e", "k", "l", "y", " ", "s", "y", "n", "c" >>),
      StringArg(<< "m", "e", "e", "t", " ", "J", "o", "e", ",", " ", "D", "a", "n", " ", "a", "n", "d", " ", "S", "a", "l", "l", "y" >>),
      StringArg(<< "g", "r", "o", "u", "p", " ", "e", "m", "a", "i", "l", " ", "t", "o", " ", "J", "o", "e" >>),
      StringArg(<< "g", "r", "o", "u", "p", " ", "e", "m", "a", "i", "l", " ", "t", "o", " ", "a", "l", "l" >>),
      StringArg(<< "o", "n", "e", " ", "e", "m", "a", "i", "l", " ", "t", "o", " ", "a", "l", "l" >>),
      StringArg(<< "m", "a", "i", "l", " ", "b", "o", "b", "@", "x", ".", "i", "o", " ", "a", "n", "d", " ", "a", "m", "y", "@", "y", ".", "o", "r", "g", "." >>) }

EmailMessages ==
    { Absent,
      StringArg(<<  >>),
      StringArg(<< "d", "r", "a", "f", "t", " ", "i", "t" >>),
      StringArg(<< "o", "n", "e", " ", "e", "m", "a", "i", "l", " ", "t", "o", " ", "a", "l", "l" >>),
      StringArg(<< "g", "r", "o", "u", "p", " ", "e", "m", "a", "i", "l", " ", "p", "l", "e", "a", "s", "e" >>),
      StringArg(<< "s", "h", "a", "r", "e", " ", "w", "i", "t", "h", " ", "e", "a", "c", "h", " ", "o", "f", " ", "t", "h", "e", "m" >>),
      StringArg(<< "e", "m", "a", "i", "l", " ", "t", "h", "e", "m", " ", "i", "n", "d", "i", "v", "i", "d", "u", "a", "l", "l", "y" >>),
      StringArg(<< "s", "e", "n", "d", " ", "t", "h", "e", "m", " ", "s", "e", "p", "a", "r", "a", "t", "e", "l", "y" >>),
      StringArg(<< "a", "s", "k", " ", "e", "a", "c", "h", " ", "p", "e", "r", "s", "o", "n" >>),
      StringArg(<< "s", "i", "n", "g", "l", "e", " ", "e", "m", "a", "i", "l", " ", "t", "o", " ", "a", "l", "l", ",", " ", "n", "o", "t", " ", "s", "e", "p", "a", "r", "a", "t", "e", "l", "y" >>),
      StringArg(<< "r", "e", "m", "i", "n", "d", " ", "J", "o", "e", " ", "o", "f", " ", "e", "a", "c", "h", " ", "i", "t", "e", "m" >>) }

EmailTos ==
    { Absent, ListArg(<< >>),
      ListArg(<< StrElem(<<"a">>) >>),
      ListArg(<< StrElem(<<"a">>), StrElem(<<"b">>) >>),
      StringArg(<<  >>),
      StringArg(<< " " >>),
      StringArg(<< "a" >>),
      StringArg(<< "a", ",", "b" >>),
      StringArg(<< "a", ",", " ", "b" >>) }

EmailTypes == {"meeting_request", "meeting_confirmation"}

EmailInputs ==
    [to : EmailTos, emailType : EmailTypes, context : EmailContexts,
     userMessage : EmailMessages]

InitEmail ==
    /\ normIn \in EmailInputs
    /\ normOut = NoOutput
    /\ normPc = "input"
    /\ SchedulerAtRest
    /\ DispatcherAtRest
    /\ DatesAtRest
    /\ ChatAtRest

\* one call of createEmailDraft, the user message already in the parameters
CreateEmailDraft ==
    /\ normPc = "input"
    /\ LET draft == createEmailDraft(
                        [to |-> normIn.to, emailType |-> normIn.emailType,
                         context |-> ReadContext(normIn.context),
                         userMessage |-> ReadMessage(normIn.userMessage)])
       IN  normOut' = [op |-> "create_email_draft", threw |-> draft.threw,
                       kind |-> draft.kind, recipients |-> draft.recipients,
                       to |-> draft.parameters.to]
    /\ normPc' = "done"
    /\ UNCHANGED <<normIn, schedVars, dispVars, dateVars, chatVars>>

NextEmail == CreateEmailDraft

SpecEmail == InitEmail /\ [][NextEmail]_vars

-----------------------------------------------------------------------------
(* App.handleSendMessage: the function calls of one LLM response, started   *)
(* together by Promise.all. Calls that never wait for the network settle    *)
(* before any timer or input is handled, so the response is one step.       *)

\* the LLM answers at most this many chat messages with function calls
MaxResponses == 2

\* executeFunction(call, message) at time t up to its first suspension, on
\* the cache `calls`, `made` result objects and `pushed` reference entries
\* existing: the cache after the duplicate check, and the invocation
executeFunctionStart(calls, call, message, t, made, pushed) ==
    LET chk == checkForDuplicateCall(calls, call.function, call.parameters, t)
        started == [IdleInvocation EXCEPT !.fn = call.function,
                                          !.parameters = call.parameters,
                                          !.startedAt = t,
                                          !.recordedAtStart = pushed]
    IN  IF chk.response # NoResult
        THEN [calls |-> chk.calls,
              inv |-> [started EXCEPT !.pc = "resolved", !.hit = TRUE,
                                      !.result = chk.response]]
        ELSE IF call.function = "create_email_draft"
        THEN LET parameters == [call.parameters EXCEPT !.userMessage = message]
                 draft == createEmailDraft(parameters)
             IN  IF draft.threw
                 THEN [calls |-> chk.calls,
                       inv |-> [started EXCEPT !.parameters = parameters,
                                               !.pc = "rejected", !.ran = TRUE,
                                               !.error = "TypeError"]]
                 ELSE [calls |-> chk.calls,
                       inv |-> [started EXCEPT !.parameters = draft.parameters,
                                               !.pc = "awaitEmail", !.ran = TRUE,
                                               !.result =
                                                   [id |-> made + 1,
                                                    kind |-> draft.kind,
                                                    recipients |-> draft.recipients]]]
        ELSE [calls |-> chk.calls,
              inv |-> [started EXCEPT !.pc = "rejected",
                                      !.error = "Unknown function"]]

\* response.functionCalls.map(call => toolDispatcher.executeFunction(call,
\* message)): the calls from number k on start one after the other, each up
\* to its first suspension; st is [calls, inv, made]
RECURSIVE startAll(_, _, _, _, _, _)
startAll(st, calls, k, message, t, pushed) ==
    IF k > Len(calls) THEN st
    ELSE LET s == executeFunctionStart(st.calls, calls[k], message, t, st.made, pushed)
         IN  startAll([calls |-> s.calls,
                       inv |-> [st.inv EXCEPT ![k] = s.inv],
                       made |-> IF s.inv.pc = "awaitEmail" THEN st.made + 1
                                ELSE st.made],
                      calls, k + 1, message, t, pushed)

\* executeFunction after the await of invocation k: addToRecentCalls, then
\* the result is returned; st is [calls, inv, recorded]
resumeOne(st, k, t) ==
    [calls |-> addToRecentCalls(st.calls, st.inv[k].fn, st.inv[k].parameters,
                                st.inv[k].result, t),
     inv |-> [st.inv EXCEPT ![k].pc = "resolved", ![k].inserted = TRUE],
     recorded |-> IF ContextNamesAllThree(st.inv[k].parameters.context)
                  THEN Append(st.recorded, [timestamp |-> t,
                                            response |-> st.inv[k].result])
                  ELSE st.recorded]

RECURSIVE resumeInOrder(_, _, _)
resumeInOrder(st, order, t) ==
    IF order = << >> THEN st
    ELSE resumeInOrder(resumeOne(st, Head(order), t), Tail(order), t)

\* the orders in which the suspended invocations of S may resume
Orders(S) ==
    { o \in UNION { [1..n -> S] : n \in {Cardinality(S)} } :
        \A a, b \in DOMAIN o : a # b => o[a] # o[b] }

\* the rejection Promise.all sees first: a call the router refused is
\* rejected when it is made, a handler that threw one turn later
FirstRejected(invs, n) ==
    LET refused == { k \in 1..n : invs[k].error = "Unknown function" }
        rejected == { k \in 1..n : invs[k].pc = "rejected" }
        first(S) == CHOOSE k \in S : \A m \in S : k <= m
    IN  IF refused # {} THEN first(refused) ELSE first(rejected)

\* await Promise.all(...) and what follows it: the assistant message built
\* from all the results, or, when one promise rejected, the catch branch
\* that shows its message as chatError
promiseAll(invs, n) ==
    IF \E k \in 1..n : invs[k].pc = "rejected"
    THEN [shown |-> "error", results |-> << >>,
          error |-> invs[FirstRejected(invs, n)].error]
    ELSE [shown |-> "results", results |-> [k \in 1..n |-> invs[k].result],
          error |-> ""]

\* the calls the LLM asks for: email drafts with and without a recipient,
\* for a context that names the three people or none, and a call of a
\* function the router does not know
ResponseContexts ==
    { StringArg(<< "w", "e", "e", "k", "l", "y", " ", "s", "y", "n", "c" >>),
      StringArg(<< "m", "e", "e", "t", " ", "J", "o", "e", ",", " ", "D", "a", "n", " ", "a", "n", "d", " ", "S", "a", "l", "l", "y" >>) }

ResponseTos == { Absent, StringArg(<< "a" >>) }

ResponseCalls ==
    { [function |-> "create_email_draft",
       parameters |-> EmailBag(to, "meeting_request", ReadContext(context))] :
          to \in ResponseTos, context \in ResponseContexts }
    \cup { [function |-> "delete_event", parameters |-> NoParameters] }

\* the chat messages that lead to them
ResponseMessages ==
    { StringArg(<< "o", "n", "e", " ", "e", "m", "a", "i", "l", " ", "t", "o", " ", "a", "l", "l" >>),
      StringArg(<< "s", "h", "a", "r", "e", " ", "w", "i", "t", "h", " ", "e", "a", "c", "h", " ", "o", "f", " ", "t", "h", "e", "m" >>) }

Responses ==
    { [calls |-> calls, message |-> message] :
         calls \in UNION { [1..n -> ResponseCalls] : n \in Slots },
         message \in ResponseMessages }

\* what createEmailDraft finds in each of these messages
ReadResponseMessage == [message \in ResponseMessages |-> ReadMessage(message)]

\* handleSendMessage from the answer of the LLM on
HandleFunctionCalls(response) ==
    /\ budget > 0
    /\ budget' = budget - 1
    /\ functionCalls' = response
    /\ LET started == startAll([calls |-> recentFunctionCalls,
                                inv |-> [i \in Slots |-> IdleInvocation],
                                made |-> nextResult],
                               response.calls, 1, ReadResponseMessage[response.message],
                               now, Len(recorded))
       IN  \E order \in Orders({ k \in Slots : started.inv[k].pc = "awaitEmail" }) :
              LET done == resumeInOrder([calls |-> started.calls,
                                         inv |-> started.inv,
                                         recorded |-> recorded], order, now)
              IN  /\ recentFunctionCalls' = done.calls
                  /\ inv' = done.inv
                  /\ recorded' = done.recorded
                  /\ nextResult' = started.made
                  /\ chat' = promiseAll(done.inv, Len(response.calls))
    /\ UNCHANGED <<events, icsGeneratorEvents, hasToken, now>>
    /\ UNCHANGED <<schedVars, normVars, dateVars>>

InitResponse == InitDispatcherWith(MaxResponses, {TRUE})

NextResponse ==
    \/ \E response \in Responses : HandleFunctionCalls(response)
    \/ Tick

SpecResponse == InitResponse /\ [][NextResponse]_vars

-----------------------------------------------------------------------------
(* Inputs of the date specification: user messages put together from an    *)
(* opening, a day, a time and a length, each of which may be missing        *)

MessageOpenings ==
    { << >>, << "n", "e", "x", "t", " " >>, << "N", "e", "x", "t", " " >>,
      << "l", "e", "t", "'", "s", " ", "m", "e", "e", "t", " ", "n", "e", "x", "t", " " >> }
MessageDays ==
    { << >>, << "t", "o", "m", "o", "r", "r", "o", "w" >>,
      << "W", "e", "d", "n", "e", "s", "d", "a", "y" >>,
      << "F", "r", "i", "d", "a", "y" >> }
    \cup { daysOfWeek[i] : i \in 1..7 }
MessageTimes ==
    { << >>, << " ", "a", "t", " ", "1", "1", " ", "A", "M" >>,
      << " ", "a", "t", " ", "9", " ", "a", "m" >>,
      << " ", "a", "t", " ", "1", "2", " ", "a", "m" >>,
      << " ", "a", "t", " ", "1", "2", " ", "p", "m" >>,
      << " ", "a", "t", " ", "2", ":", "3", "0", " ", "p", "m" >> }
MessageLengths ==
    { << >>, << " ", "f", "o", "r", " ", "1", " ", "h", "o", "u", "r" >>,
      << " ", "f", "o", "r", " ", "2", " ", "h", "o", "u", "r", "s" >> }

Messages ==
    { o \o d \o t \o l :
        o \in MessageOpenings, d \in MessageDays, t \in MessageTimes,
        l \in MessageLengths }

UserMessages == { Absent } \cup { StringArg(m) : m \in Messages }

\* the clock at the call: 10:00 on each day of a week
CallTimes == { d * MinutesPerDay + 10 * 60 : d \in 0..6 }

\* the startTime the LLM proposes, as new Date reads it at a call at time t:
\* no date, a minute ago, this very minute, or a day ahead
ProposedDates(t) ==
    { InvalidDate, DateAt(t - 1), DateAt(t), DateAt(t + MinutesPerDay) }

\* the endTime proposed with a startTime: an hour later
ProposedEnd(startTime) ==
    [date |-> IF startTime.date.valid THEN DateAt(startTime.date.time + 60)
              ELSE InvalidDate,
     literal |-> startTime.literal]

InitDates ==
    /\ \E t \in CallTimes, m \in UserMessages, lit \in BOOLEAN :
          \E date \in ProposedDates(t) :
             LET startTime == [date |-> date, literal |-> lit]
             IN  dateIn = [startTime |-> startTime,
                           endTime |-> ProposedEnd(startTime),
                           userMessage |-> m, now |-> t]
    /\ dateOut = NoDateOutput
    /\ datePc = "input"
    /\ SchedulerAtRest
    /\ DispatcherAtRest
    /\ NormAtRest
    /\ ChatAtRest

\* the date handling of one createCalendarLink call
CreateCalendarLinkDates ==
    /\ datePc = "input"
    /\ dateOut' = createCalendarLinkDates(dateIn.startTime, dateIn.endTime,
                                          dateIn.userMessage, dateIn.now)
    /\ datePc' = "done"
    /\ UNCHANGED <<dateIn, schedVars, dispVars, normVars, chatVars>>

NextDates == CreateCalendarLinkDates

SpecDates == InitDates /\ [][NextDates]_vars

-----------------------------------------------------------------------------

Range(s) == { s[i] : i \in 1..Len(s) }

\* C1: every slot findFreeSlots returns is marked available and overlaps no
\* event of the snapshot (no event e with e.startTime < slot.end and
\* e.endTime > slot.start), also for events that began on an earlier day.
C1_SlotValidity ==
    schedPc = "searched" =>
        \A s \in Range(slots) :
            /\ s.isAvailable
            /\ ~\E e \in schedEvents : e.startTime < s.end /\ e.endTime > s.start


\* the window a findFreeSlots query searches each day
WindowOf(q) ==
    IF q.preferredTime = NoWindow
    THEN [start |-> 9 * 60, end |-> 17 * 60]
    ELSE q.preferredTime

\* the slot starts the grid of claim C14 puts on calendar day d
GridStarts(q, d) ==
    { d * MinutesPerDay + WindowOf(q).start + 30 * k : k \in 0..47 } \cap
    { b \in 0..((MaxDay + 2) * MinutesPerDay) :
        /\ DayOf(b) = d
        /\ b + q.duration <= d * MinutesPerDay + WindowOf(q).end }

IsWorkingDay(d) == ((Day0Weekday + d) % 7) \in {1, 2, 3, 4, 5}

\* C14: on an empty snapshot findFreeSlots returns, for every working day
\* from the day of startDate to the day of endDate, whatever their times of
\* day, exactly the slots of the 30-minute grid that fit the window, nothing
\* on other days, in strictly increasing start time.
C14_SlotGrid ==
    (schedPc = "searched" /\ schedEvents = {}) =>
        /\ { slots[k].start : k \in 1..Len(slots) } =
               UNION { GridStarts(query, d) :
                         d \in { dd \in DayOf(query.startDate)..DayOf(query.endDate) :
                                   IsWorkingDay(dd) } }
        /\ \A k \in 1..Len(slots) :
              /\ slots[k].end = slots[k].start + query.duration
              /\ slots[k].isAvailable
              /\ k > 1 => slots[k - 1].start < slots[k].start

\* C15: the time-conflict test of slot filtering and of checkAvailability is
\* true exactly when a.start < b.end and b.start < a.end: the conflicts
\* checkAvailability reports are the events related so to the interval, the
\* test gives the same answer with its two intervals exchanged, and an
\* interval that only touches an event at an end point does not conflict.
C15_ConflictPredicate ==
    schedPc = "checked" =>
        LET a == [start |-> query.startTime, end |-> query.endTime]
        IN  /\ availability.conflicts =
                   { e \in schedEvents : a.start < e.endTime /\ e.startTime < a.end }
            /\ availability.available = (availability.conflicts = {})
            /\ \A e \in schedEvents :
                  LET b == [start |-> e.startTime, end |-> e.endTime]
                  IN  /\ isTimeSlotBusy(a.start, a.end, getBusySlots({e}))
                         = (a.start < b.end /\ b.start < a.end)
                      /\ isTimeSlotBusy(a.start, a.end, {b})
                         = isTimeSlotBusy(b.start, b.end, {a})
                      /\ (a.end = b.start \/ b.end = a.start)
                         => /\ e \notin availability.conflicts
                            /\ ~isTimeSlotBusy(a.start, a.end, {b})

\* the interval asked about starts where an event of the snapshot ends, and
\* is reported available
C15_Witness ==
    /\ schedPc = "checked"
    /\ \E e \in schedEvents : e.endTime = query.startTime
    /\ availability.available

\* the calendar days the loop of findFreeSlots visits for query q
VisitedDays(q) ==
    { d \in DayOf(q.startDate)..DayOf(q.endDate) :
        /\ q.startDate + (d - DayOf(q.startDate)) * MinutesPerDay <= q.endDate
        /\ IsWorkingDay(d) }

\* C16: a candidate interval of the grid inside the working window of a
\* searched working day is returned by findFreeSlots if and only if
\* checkAvailability reports it available.
C16_SearchAgreesWithAvailability ==
    schedPc = "searched" =>
        \A d \in VisitedDays(query) : \A b \in GridStarts(query, d) :
            (\E k \in 1..Len(slots) : slots[k].start = b)
            <=> checkAvailability(b, b + query.duration).available

\* the free slots the suggestOptimalMeetingTimes call of the state ranked
Candidates ==
    suggestCandidates(query.duration, query.preferredTime, query.today)

\* the position of the slot starting at b in the returned list, 0 when the
\* slot was not returned
RankOf(b) ==
    IF \E k \in 1..Len(slots) : slots[k].start = b
    THEN CHOOSE k \in 1..Len(slots) : slots[k].start = b
    ELSE 0

\* C11: with urgency 'high', of two candidate slots whose starts are more
\* than 24 hours apart the later one is returned only together with the
\* earlier one, and behind it.
C11_EarlierFirstWhenUrgent ==
    (schedPc = "suggested" /\ query.urgency = "high") =>
        LET starts == { c.start : c \in Range(Candidates) }
        IN  \A k \in 1..Len(slots) : \A a \in starts :
                slots[k].start - a > 24 * 60
                => (RankOf(a) # 0 /\ RankOf(a) < k)

Sign(n) == IF n < 0 THEN -1 ELSE IF n > 0 THEN 1 ELSE 0

\* C12: the comparator of sortSlotsByPriority is antisymmetric and
\* transitive over the slots it is given, and returned slots it does not
\* distinguish are in chronological order.
C12_ComparatorIsTotalOrder ==
    schedPc = "suggested" =>
        LET cmp(a, b) == compareSlots(a, b, query.urgency, query.preferredTime)
            S == Range(Candidates)
        IN  /\ \A a, b \in S : Sign(cmp(a, b)) = -Sign(cmp(b, a))
            /\ \A a, b, c \in S :
                  (cmp(a, b) <= 0 /\ cmp(b, c) <= 0) => cmp(a, c) <= 0
            /\ \A i, j \in 1..Len(slots) :
                  (i < j /\ cmp(slots[i], slots[j]) = 0)
                  => slots[i].start < slots[j].start

\* C13: suggestOptimalMeetingTimes returns at most 5 slots for urgency
\* 'high', 3 for 'medium' and 2 for 'low', and exactly that many when the
\* search found at least that many free slots (all of them otherwise).
C13_RankingBound ==
    schedPc = "suggested" =>
        LET bound == CASE query.urgency = "high"   -> 5
                       [] query.urgency = "medium" -> 3
                       [] query.urgency = "low"    -> 2
        IN  /\ Len(slots) <= bound
            /\ Len(Candidates) >= bound => Len(slots) = bound
            /\ Len(Candidates) < bound => Len(slots) = Len(Candidates)
            /\ Range(slots) \subseteq Range(Candidates)

\* an urgent call that found more than five free slots and returned five
C13_Witness ==
    /\ schedPc = "suggested"
    /\ query.urgency = "high"
    /\ Len(Candidates) > 5
    /\ Len(slots) = 5

\* C26: no slot findFreeSlots returns starts before startDate, and no slot
\* suggestOptimalMeetingTimes proposes starts before the time of the call,
\* also when the search begins in the middle of a working day.
C26_NoProposalInThePast ==
    /\ schedPc = "searched"
          => \A k \in 1..Len(slots) : slots[k].start >= query.startDate
    /\ schedPc = "suggested"
          => \A k \in 1..Len(slots) : slots[k].start >= query.today

\* the second half of C26 alone
C26_SuggestionsNotInThePast ==
    schedPc = "suggested"
        => \A k \in 1..Len(slots) : slots[k].start >= query.today

\* what holds: no slot lies on a day before the day the search begins on
C26_NoProposalOnEarlierDay ==
    /\ schedPc = "searched"
          => \A k \in 1..Len(slots) : DayOf(slots[k].start) >= DayOf(query.startDate)
    /\ schedPc = "suggested"
          => \A k \in 1..Len(slots) : DayOf(slots[k].start) >= DayOf(query.today)

-----------------------------------------------------------------------------
(* Claims about create_email_draft *)

\* the text of an argument, empty when the argument is absent
TextOf(arg) == IF arg.kind = "string" THEN arg.text ELSE << >>

\* the 'to' argument is a list of more than one entry or a text with a comma
ExplicitList(to) ==
    \/ to.kind = "list" /\ Len(to.items) > 1
    \/ to.kind = "string" /\ \E k \in 1..Len(to.text) : to.text[k] = ","

\* the entries of an explicit list: the elements, or the trimmed pieces
\* between the commas
ParsedList(to) ==
    IF to.kind = "list" THEN [k \in 1..Len(to.items) |-> to.items[k].v]
    ELSE TrimAll(Split(to.text))

\* the fan-out phrases the decision order names
FanOutPhrases ==
    << << "e", "a", "c", "h", " ", "o", "f", " ", "t", "h", "e", "m" >>,
       << "i", "n", "d", "i", "v", "i", "d", "u", "a", "l", "l", "y" >>,
       << "s", "e", "p", "a", "r", "a", "t", "e", "l", "y" >>,
       << "e", "a", "c", "h", " ", "p", "e", "r", "s", "o", "n" >> >>

\* the explicit group phrases the decision order names
GroupPhrases ==
    << << "o", "n", "e", " ", "e", "m", "a", "i", "l", " ", "t", "o", " ", "a", "l", "l" >>,
       << "g", "r", "o", "u", "p", " ", "e", "m", "a", "i", "l" >>,
       << "s", "i", "n", "g", "l", "e", " ", "e", "m", "a", "i", "l", " ", "t", "o", " ", "a", "l", "l" >> >>

\* C21: when 'to' is a list of more than one entry or a text with a comma,
\* createEmailDraft answers in group mode with the parsed list as the
\* recipients, whatever the context and the user message say.
C21_ExplicitListIsGroup ==
    (normPc = "done" /\ normOut.op = "create_email_draft"
     /\ ExplicitList(normIn.to)) =>
        /\ ~normOut.threw
        /\ normOut.kind = "group"
        /\ normOut.recipients = ParsedList(normIn.to)
        /\ normOut.to = normIn.to

\* a call with two recipients and a message asking for an email each was
\* answered in group mode
C21_Witness ==
    /\ normPc = "done"
    /\ normOut.op = "create_email_draft"
    /\ ExplicitList(normIn.to)
    /\ IncludesAny(TextOf(normIn.userMessage), FanOutPhrases)
    /\ normOut.kind = "group"
    /\ Len(normOut.recipients) = 2

\* the call was answered by createGroupEmail or createMultipleMeetingEmails
HandedDownstream ==
    /\ normPc = "done"
    /\ normOut.op = "create_email_draft"
    /\ ~normOut.threw
    /\ normOut.kind \in {"group", "multiple"}

\* C22: the recipient list createEmailDraft hands to the group email or to
\* the one-email-each generation has at least one entry, whatever 'to', the
\* context and the user message are.
C22_RecipientsNeverEmpty ==
    HandedDownstream => Len(normOut.recipients) >= 1

\* C22 for every 'to' other than the empty list
C22_NeverEmptyUnlessEmptyList ==
    (HandedDownstream /\ ~(normIn.to.kind = "list" /\ Len(normIn.to.items) = 0))
        => Len(normOut.recipients) >= 1

\* an empty 'to' was replaced by the three fallback recipients
C22_FallbackUsed ==
    /\ HandedDownstream
    /\ ToIsEmpty(normIn.to)
    /\ normOut.recipients = FallbackTriple

\* the context argument names Joe, Dan or Sally
ContextNamesRecipient ==
    \E n \in Names : StrIncludes(TextOf(normIn.context), NameText(n))

\* the mode the decision order gives a call whose 'to' is no explicit list
DecidedMode ==
    IF \/ IncludesAny(TextOf(normIn.userMessage), GroupPhrases)
       \/ IncludesAny(TextOf(normIn.context), GroupPhrases)
    THEN "group"
    ELSE IF \/ IncludesAny(TextOf(normIn.userMessage), FanOutPhrases)
            \/ ContextNamesRecipient
    THEN "multiple"
    ELSE "single"

\* C23: when 'to' is no explicit list, createEmailDraft answers in group mode
\* exactly when the user message or the context holds an explicit group
\* phrase (an empty 'to' becoming the fallback triple), else one email each
\* when the message holds a fan-out phrase or the context names a known
\* recipient, else a single email.
C23_DecisionOrder ==
    (normPc = "done" /\ normOut.op = "create_email_draft"
     /\ ~ExplicitList(normIn.to)) =>
        /\ normOut.kind = DecidedMode
        /\ (normOut.kind = "group" /\ ToIsEmpty(normIn.to))
              => normOut.recipients = FallbackTriple

\* C23, last sentence alone: a fan-out phrase in the message and no explicit
\* group phrase anywhere gives one email each
C23_FanOutPhraseWins ==
    (/\ normPc = "done" /\ normOut.op = "create_email_draft"
     /\ ~ExplicitList(normIn.to)
     /\ IncludesAny(TextOf(normIn.userMessage), FanOutPhrases)
     /\ ~IncludesAny(TextOf(normIn.userMessage), GroupPhrases)
     /\ ~IncludesAny(TextOf(normIn.context), GroupPhrases))
        => normOut.kind = "multiple"

\* the order of the tests alone: a group phrase of the handler's own lists
\* is looked for before any fan-out phrase
C23_GroupTestedFirst ==
    (/\ normPc = "done" /\ normOut.op = "create_email_draft"
     /\ ~ExplicitList(normIn.to)
     /\ IncludesAny(TextOf(normIn.userMessage), messageGroupPhrases))
        => normOut.kind = "group"

-----------------------------------------------------------------------------
(* Claims about the calls of one LLM response *)

\* the numbers of the calls of the response that was handled last
HandledCalls == 1..Len(functionCalls.calls)

\* call k of that response names no registered operation
Unregistered(k) == functionCalls.calls[k].function \notin RegisteredFunctions

\* the chat shows the result of invocation k
Reported(k) == \E m \in 1..Len(chat.results) : chat.results[m] = inv[k].result

\* C24: a call of an operation the router does not know fails without
\* appending an event or a cache entry, and the other calls of the same
\* response still run and have their results reported in the chat.
C24_UnknownFatalToThatCallOnly ==
    \A k \in HandledCalls :
        Unregistered(k)
        => /\ inv[k].pc = "rejected"
           /\ inv[k].appended = 0
           /\ ~inv[k].inserted
           /\ \A j \in HandledCalls \ {k} :
                 ~Unregistered(j)
                 => /\ inv[j].ran \/ inv[j].hit
                    /\ inv[j].pc = "resolved" => Reported(j)

\* C24 without the report: the unknown call is rejected and records nothing,
\* and the other calls run to the end
C24_OtherCallsStillRun ==
    \A k \in HandledCalls :
        Unregistered(k)
        => /\ inv[k].pc = "rejected"
           /\ inv[k].appended = 0
           /\ ~inv[k].inserted
           /\ \A j \in HandledCalls \ {k} :
                 ~Unregistered(j) => inv[j].pc = "resolved"

\* a response made of an unknown call alone adds nothing to the snapshot or
\* the cache (entries that are too old may leave the cache)
C24_UnknownAppendsNothing ==
    [][ (budget' = budget - 1
         /\ Len(functionCalls'.calls) = 1
         /\ functionCalls'.calls[1].function \notin RegisteredFunctions)
        => /\ events' = events
           /\ \A m \in 1..Len(recentFunctionCalls') :
                 \E n \in 1..Len(recentFunctionCalls) :
                    recentFunctionCalls'[m] = recentFunctionCalls[n] ]_vars

\* an email draft was produced and recorded next to an unknown call, and the
\* chat shows the error alone
C24_ResultDropped ==
    \E k, j \in HandledCalls :
        /\ Unregistered(k)
        /\ inv[j].pc = "resolved"
        /\ inv[j].inserted
        /\ chat.shown = "error"
        /\ ~Reported(j)

\* call k of the response is a create_email_draft whose context names Joe,
\* Dan and Sally
NamesAllThree(k) ==
    /\ functionCalls.calls[k].function = "create_email_draft"
    /\ ContextNamesAllThree(functionCalls.calls[k].parameters.context)

\* C25: of two create_email_draft calls of one response whose contexts both
\* name Joe, Dan and Sally, at most one runs the email handler, and both
\* return the same result object.
C25_OneRunPerResponse ==
    \A k, j \in HandledCalls :
        (k < j /\ NamesAllThree(k) /\ NamesAllThree(j))
        => /\ ~(inv[k].ran /\ inv[j].ran)
           /\ inv[k].result = inv[j].result

\* the second of two such calls is answered from the cache when an earlier
\* response left an entry there
C25_SecondHitsEarlierResponse ==
    \A k, j \in HandledCalls :
        (k < j /\ NamesAllThree(k) /\ NamesAllThree(j) /\ inv[k].hit)
        => /\ inv[j].hit
           /\ inv[k].result = inv[j].result

\* what createEmailDraft would make of call k of the response itself
OwnDraft(k) ==
    createEmailDraft([functionCalls.calls[k].parameters EXCEPT
                         !.userMessage = ReadResponseMessage[functionCalls.message]])

\* C30: a create_email_draft call is answered from the cache only with the
\* result of a call that had the same recipients and selected the same mode
\* as this call would.
C30_HitOnlyForEquivalentRequest ==
    \A k \in HandledCalls :
        inv[k].hit
        => /\ inv[k].result.kind = OwnDraft(k).kind
           /\ inv[k].result.recipients = OwnDraft(k).recipients

\* what does hold: a call answered from the cache names Joe, Dan and Sally
\* in its context, as the call that produced the result did
C30_HitOnlyForNamedContext ==
    \A k \in HandledCalls :
        inv[k].hit
        => /\ NamesAllThree(k)
           /\ \E m \in 1..Len(recorded) : recorded[m].response = inv[k].result

-----------------------------------------------------------------------------
(* Claims about the date recalculation *)

\* the user message of the call in lower case, empty when there is none
LoweredMessage == ToLowerCase(dateIn.userMessage.text)

\* the proposed start is a date strictly before the clock of the call
ProposedInPast ==
    dateIn.startTime.date.valid /\ dateIn.startTime.date.time < dateIn.now

\* the weekdays (0 = Sunday) the message names
NamedWeekdays == { i - 1 : i \in { k \in 1..7 : StrIncludes(LoweredMessage, daysOfWeek[k]) } }

SaysNext == StrIncludes(LoweredMessage, NextWord)

\* the message holds a time written H am|pm or H:MM am|pm
HasTimeToken ==
    \E t \in MessageTimes \ { << >> } : StrIncludes(LoweredMessage, ToLowerCase(t))

\* C17 as stated: shouldRecalculateDates is true whenever the proposed start
\* is in the past, or is one of the two literals, or the message holds next,
\* tomorrow, today or a weekday name, whatever the message, absent and empty
\* ones included.
C17_RecalculateWhenever ==
    datePc = "done" =>
        ((\/ ProposedInPast
          \/ dateIn.startTime.literal
          \/ SaysNext
          \/ StrIncludes(LoweredMessage, naturalLanguageIndicators[2])
          \/ StrIncludes(LoweredMessage, naturalLanguageIndicators[3])
          \/ NamedWeekdays # {})
         => dateOut.recalculate)

\* C17: for an absent or empty user message shouldRecalculateDates is false;
\* for any other message it is true exactly when the proposed start is
\* strictly in the past, or is one of the two literals, or the message holds
\* one of the relative-date keywords.
C17_RecalculateUnlessNoMessage ==
    datePc = "done" =>
        IF dateIn.userMessage.kind = "absent" \/ dateIn.userMessage.text = << >>
        THEN ~dateOut.recalculate
        ELSE dateOut.recalculate =
                (\/ ProposedInPast
                 \/ dateIn.startTime.literal
                 \/ \E k \in 1..Len(naturalLanguageIndicators) :
                       StrIncludes(LoweredMessage, naturalLanguageIndicators[k]))

\* shouldRecalculate("2024-01-10...", "let's meet next Friday") was true
C17_Witness ==
    /\ datePc = "done"
    /\ dateIn.startTime.literal
    /\ dateIn.userMessage.text = << "l", "e", "t", "'", "s", " ", "m", "e", "e", "t", " ", "n", "e", "x", "t", " ", "F", "r", "i", "d", "a", "y" >>
    /\ dateOut.recalculate

\* how many calendar days after the call the recomputed start lies
DaysOut == DayOf(dateOut.recalculatedDates.start) - DayOf(dateIn.now)

\* C18: with 'next' and a weekday name the recomputed start is on the first
\* day strictly after today with that weekday (7 days out when today is that
\* weekday); without 'next' it is (target - today + 7) mod 7 days out. Times
\* written with minutes are left to claim C20.
C18_NextWeekdayStrictlyAfter ==
    (/\ datePc = "done"
     /\ dateOut.recalculatedDates.found
     /\ ~StrIncludes(LoweredMessage, << ":" >>)) =>
        \A target \in NamedWeekdays :
            LET today == GetDay(dateIn.now)
            IN  /\ GetDay(dateOut.recalculatedDates.start) = target
                /\ SaysNext => /\ DaysOut \in 1..7
                               /\ today = target => DaysOut = 7
                /\ ~SaysNext => DaysOut = (target - today + 7) % 7

NextWednesdayMessage == << "n", "e", "x", "t", " ", "W", "e", "d", "n", "e", "s", "d", "a", "y", " ", "a", "t", " ", "1", "1", " ", "A", "M", " ", "f", "o", "r", " ", "1", " ", "h", "o", "u", "r" >>

\* C19 as stated: on a Monday, 'next Wednesday at 11 AM for 1 hour' gives
\* not the Wednesday two days out but the Wednesday of the following week,
\* 11:00 to 12:00.
C19_WednesdayOfFollowingWeek ==
    (/\ datePc = "done"
     /\ dateIn.userMessage.text = NextWednesdayMessage
     /\ GetDay(dateIn.now) = 1) =>
        /\ dateOut.recalculatedDates.found
        /\ DaysOut > 2
        /\ DaysOut <= 9
        /\ GetDay(dateOut.recalculatedDates.start) = 3
        /\ dateOut.recalculatedDates.start % MinutesPerDay = 11 * 60
        /\ dateOut.recalculatedDates.end = dateOut.recalculatedDates.start + 60

\* C19: on a Monday, 'next Wednesday at 11 AM for 1 hour' gives the
\* Wednesday two days out, 11:00 to 12:00, and createCalendarLink goes on
\* with these dates.
C19_NextWednesdayFromMonday ==
    (/\ datePc = "done"
     /\ dateIn.userMessage.text = NextWednesdayMessage
     /\ GetDay(dateIn.now) = 1) =>
        /\ dateOut.recalculate
        /\ dateOut.recalculatedDates.found
        /\ dateOut.recalculatedDates.start =
               Midnight(dateIn.now) + 2 * MinutesPerDay + 11 * 60
        /\ dateOut.recalculatedDates.end =
               Midnight(dateIn.now) + 2 * MinutesPerDay + 12 * 60
        /\ dateOut.actualStart = DateAt(dateOut.recalculatedDates.start)
        /\ dateOut.actualEnd = DateAt(dateOut.recalculatedDates.end)

\* the message was handled on a Monday and the start moved to a Wednesday
C19_Witness ==
    /\ datePc = "done"
    /\ dateIn.userMessage.text = NextWednesdayMessage
    /\ GetDay(dateIn.now) = 1
    /\ dateOut.actualStart.valid
    /\ GetDay(dateOut.actualStart.time) = 3

\* the time of day, in minutes, the time token of the message writes
WrittenTime ==
    CASE StrIncludes(LoweredMessage, << "1", "1", " ", "a", "m" >>) -> 11 * 60
      [] StrIncludes(LoweredMessage, << "9", " ", "a", "m" >>) -> 9 * 60
      [] StrIncludes(LoweredMessage, << "1", "2", " ", "a", "m" >>) -> 0
      [] StrIncludes(LoweredMessage, << "1", "2", " ", "p", "m" >>) -> 12 * 60
      [] StrIncludes(LoweredMessage, << "2", ":", "3", "0", " ", "p", "m" >>) -> 14 * 60 + 30

\* the hours the message asks for, 1 when it gives no count
WrittenHours ==
    IF StrIncludes(LoweredMessage, << "2", " ", "h", "o", "u", "r", "s" >>) THEN 2 ELSE 1

\* C20: for a message with a weekday name and a time H am|pm or H:MM am|pm
\* the recomputed start is on that weekday at H:MM in 24-hour form and the
\* end is N hours later (1 hour without a count); without a weekday or a
\* time token nothing is recomputed and the proposed start and end stay.
C20_TimeAndDuration ==
    (datePc = "done" /\ dateOut.recalculate) =>
        IF NamedWeekdays # {} /\ HasTimeToken
        THEN /\ dateOut.recalculatedDates.found
             /\ GetDay(dateOut.recalculatedDates.start) \in NamedWeekdays
             /\ dateOut.recalculatedDates.start % MinutesPerDay = WrittenTime
             /\ dateOut.recalculatedDates.end - dateOut.recalculatedDates.start
                   = WrittenHours * 60
        ELSE /\ ~dateOut.recalculatedDates.found
             /\ dateOut.actualStart = dateIn.startTime.date
             /\ dateOut.actualEnd = dateIn.endTime.date

-----------------------------------------------------------------------------
(* Claims about the dispatcher *)

Settled == {"resolved", "rejected"}

\* this step starts an invocation in slot i
StartsIn(i) == FreeSlot(i) /\ budget' = budget - 1

\* the positions of the cache entries a create_email_draft call naming the
\* three recipients duplicates at time t: recorded for such a call less than
\* 10 s earlier
FreshNamed(calls, t) ==
    { k \in 1..Len(calls) :
        /\ calls[k].function = "create_email_draft"
        /\ Names \subseteq calls[k].parameters.context.names
        /\ t - calls[k].timestamp < 10000 }

Lowest(S) == CHOOSE k \in S : \A m \in S : k <= m

\* C2 (as amended): a create_email_draft call whose context names Joe, Dan
\* and Sally, starting while the cache holds an entry recorded less than 10 s
\* earlier for such a call, does not run the email handler and returns the
\* result object of the oldest such entry, recording nothing; when the cache
\* holds no such entry (none recorded, expired, or evicted by five later
\* insertions) the handler runs.
C2_DuplicateSuppression ==
    [][ \A i \in Slots :
          (StartsIn(i) /\ inv'[i].fn = "create_email_draft"
             /\ Names \subseteq inv'[i].parameters.context.names)
          => LET fresh == FreshNamed(recentFunctionCalls, now)
             IN  IF fresh # {}
                 THEN /\ inv'[i].pc = "resolved"
                      /\ inv'[i].hit
                      /\ ~inv'[i].ran
                      /\ inv'[i].result = recentFunctionCalls[Lowest(fresh)].response
                      /\ nextResult' = nextResult
                      /\ recorded' = recorded
                 ELSE /\ ~inv'[i].hit
                      /\ inv'[i].ran ]_vars

\* two calls naming the three recipients ran side by side and were both
\* recorded; a third was answered with the result of the older entry
C2_Witness ==
    \E i \in Slots :
        /\ inv[i].hit
        /\ Cardinality(FreshNamed(recentFunctionCalls, now)) = 2
        /\ inv[i].result =
               recentFunctionCalls[Lowest(FreshNamed(recentFunctionCalls, now))].response

\* C2 as stated: a call naming the three recipients that starts less than
\* 10 s after such a call was recorded returns that call's result object and
\* does not run the handler.
C2_AsStated ==
    \A i \in Slots :
        (inv[i].fn = "create_email_draft" /\ inv[i].pc # "idle"
           /\ Names \subseteq inv[i].parameters.context.names)
        => \A k \in 1..inv[i].recordedAtStart :
              inv[i].startedAt - recorded[k].timestamp < 10000
              => /\ inv[i].hit
                 /\ ~inv[i].ran
                 /\ inv[i].result = recorded[k].response

\* C3: when the remote create call failed, create_calendar_event resolves
\* with a fallback result holding a calendar deep link and non-empty ICS
\* text, having appended exactly one locally synthesised event.
C3_EventCreationFallback ==
    \A i \in Slots :
        (inv[i].fn = "create_calendar_event" /\ inv[i].pc \in Settled
           /\ ~inv[i].remoteOk)
        => /\ inv[i].pc = "resolved"
           /\ inv[i].result.kind = "fallback"
           /\ inv[i].result.calendarUrl # << >>
           /\ inv[i].result.icsContent
           /\ inv[i].appended = 1

\* C4: every create_calendar_event invocation issues the remote create call
\* exactly once and settles in exactly one terminal state: Committed, with
\* the remote id and link, iff the remote call succeeded, otherwise
\* FallbackLinkGenerated; either way it appended exactly one event.
C4_EventCreationStateMachine ==
    \A i \in Slots :
        inv[i].fn = "create_calendar_event"
        => /\ inv[i].remoteCalls = 1
           /\ inv[i].pc \in Settled
              => /\ inv[i].pc = "resolved"
                 /\ inv[i].result.kind = IF inv[i].remoteOk THEN "committed"
                                         ELSE "fallback"
                 /\ inv[i].remoteOk => /\ inv[i].result.calendarUrl = HtmlLink
                                       /\ inv[i].result.eventId[1] = "g"
                 /\ inv[i].appended = 1

\* C5: the promise of executeFunction rejects only when the function name is
\* not a registered operation.
C5_RouterFailurePolicy ==
    \A i \in Slots :
        inv[i].pc = "rejected" => inv[i].fn \notin RegisteredFunctions

\* C6: while an invocation is suspended, no other invocation starts or
\* resumes, so the snapshot and the cache stay as the suspended one left them.
C6_SingleInFlight ==
    [][ \A i \in Slots :
          (inv[i].pc \in InFlight /\ inv'[i].pc \in InFlight)
          => /\ \A j \in Slots \ {i} : inv'[j] = inv[j]
             /\ budget' = budget
             /\ recentFunctionCalls' = recentFunctionCalls ]_vars

\* C7: whenever executeFunction returns from create_email_draft or
\* create_calendar_event having run the handler, the call and its result have
\* been inserted into the duplicate cache.
C7_CacheInsertion ==
    \A i \in Slots :
        (inv[i].pc = "resolved" /\ inv[i].fn \in SideEffecting /\ ~inv[i].hit)
        => inv[i].inserted

\* C8: the cache never holds more than 5 entries; an insertion into a full
\* cache drops the entry inserted first, which is the oldest; and a call is
\* answered from the cache only with an entry less than 10 s old.
C8_CacheBounds ==
    /\ [](Len(recentFunctionCalls) <= 5)
    /\ [][ \A i \in Slots :
             (inv[i].pc = "awaitEmail" /\ inv'[i].pc = "resolved")
             => LET entry == [function |-> inv[i].fn,
                              parameters |-> inv[i].parameters,
                              timestamp |-> now, response |-> inv[i].result]
                IN  IF Len(recentFunctionCalls) = 5
                    THEN /\ recentFunctionCalls' =
                                Append(Tail(recentFunctionCalls), entry)
                         /\ \A k \in 1..5 : recentFunctionCalls[1].timestamp
                                              <= recentFunctionCalls[k].timestamp
                    ELSE recentFunctionCalls' = Append(recentFunctionCalls, entry)
         ]_vars
    /\ [][ \A i \in Slots :
             (StartsIn(i) /\ inv'[i].hit)
             => \E k \in 1..Len(recentFunctionCalls) :
                   /\ recentFunctionCalls[k].response = inv'[i].result
                   /\ now - recentFunctionCalls[k].timestamp < 10000 ]_vars

\* the sixth insertion evicted the first entry, and a later call was answered
\* from the cache
C8_Witness ==
    /\ Len(recentFunctionCalls) = 5
    /\ recentFunctionCalls[1].response.id = 2
    /\ \E i \in Slots : inv[i].hit

\* C27: a create_calendar_event invocation that rejects has pushed nothing
\* to context.events, and the snapshot never holds an event whose start or
\* end is an invalid date.
C27_AllOrNothing ==
    /\ \A i \in Slots :
          (inv[i].fn = "create_calendar_event" /\ inv[i].pc = "rejected")
          => inv[i].appended = 0
    /\ \A k \in 1..Len(events) : events[k].datesOk

\* the first half of C27 for calls with valid dates: a missing title alone
\* leaves nothing behind
C27_MissingTitleLeavesNothing ==
    \A i \in Slots :
        (/\ inv[i].fn = "create_calendar_event" /\ inv[i].pc = "rejected"
         /\ inv[i].parameters.datesOk)
        => inv[i].appended = 0

\* what holds: an invocation that resolves has pushed exactly one event
C27_ResolvedPushedOne ==
    \A i \in Slots :
        (inv[i].fn = "create_calendar_event" /\ inv[i].pc = "resolved")
        => inv[i].appended = 1

\* the events of the snapshot whose id is in eventIds
WantedEvents(eventIds) ==
    SelectSeq(events, LAMBDA e : EventIdsInclude(eventIds, e.id))

\* this step is a generate_ics call in slot i that resolves
GeneratesIn(i) ==
    /\ StartsIn(i)
    /\ inv'[i].fn = "generate_ics"
    /\ inv'[i].pc = "resolved"

\* C28: the file a generate_ics call writes holds one VEVENT for each event
\* of the snapshot whose id is in eventIds and no other, as many as the
\* eventCount it reports, whatever generate_ics calls came before.
C28_OutputMatchesIdList ==
    [][ \A i \in Slots :
          GeneratesIn(i)
          => /\ icsGeneratorEvents' = WantedEvents(inv'[i].parameters.eventIds)
             /\ Len(icsGeneratorEvents') = inv'[i].result.eventCount ]_vars

\* what holds: the first call that selects something writes its selection,
\* and every call reports the size of its own selection and writes its
\* selection last
C28_FirstOutputMatches ==
    [][ \A i \in Slots :
          GeneratesIn(i)
          => LET wanted == WantedEvents(inv'[i].parameters.eventIds)
             IN  /\ inv'[i].result.eventCount = Len(wanted)
                 /\ icsGeneratorEvents' = icsGeneratorEvents \o wanted
                 /\ icsGeneratorEvents = << >> => icsGeneratorEvents' = wanted ]_vars

\* C29: a call answered from the cache changes nothing: it inserts no cache
\* entry and makes no result, leaves the entry it was answered with as it
\* is, timestamp included, gets no userMessage added to its parameters and
\* leaves context.events alone; the entry was recorded less than 10 s
\* before, and a call naming the three recipients that starts 10 s or more
\* after every recorded execution runs the handler again.
C29_HitChangesNothing ==
    [][ \A i \in Slots :
          StartsIn(i)
          => /\ inv'[i].hit
                  => /\ events' = events
                     /\ recorded' = recorded
                     /\ nextResult' = nextResult
                     /\ inv'[i].parameters.userMessage = NoMessage
                     /\ \A m \in 1..Len(recentFunctionCalls') :
                           \E n \in 1..Len(recentFunctionCalls) :
                              recentFunctionCalls'[m] = recentFunctionCalls[n]
                     /\ \E m \in 1..Len(recentFunctionCalls') :
                           \E n \in 1..Len(recentFunctionCalls) :
                              /\ recentFunctionCalls[n].response = inv'[i].result
                              /\ recentFunctionCalls'[m] = recentFunctionCalls[n]
                     /\ \E m \in 1..Len(recorded) :
                           /\ recorded[m].response = inv'[i].result
                           /\ now - recorded[m].timestamp < DuplicateWindowMs
             /\ (/\ ContextNamesAllThree(inv'[i].parameters.context)
                 /\ \A m \in 1..Len(recorded) :
                       now - recorded[m].timestamp >= DuplicateWindowMs)
                  => /\ ~inv'[i].hit
                     /\ inv'[i].ran ]_vars

\* a call was answered from the cache 5 s after the execution, and the call
\* made 10 s after the execution ran the handler again
C29_Witness ==
    \E i, j \in Slots :
        /\ Len(recorded) >= 1
        /\ recorded[1].timestamp = 0
        /\ inv[j].hit
        /\ inv[j].startedAt = TickMs
        /\ inv[j].result = recorded[1].response
        /\ inv[i].ran
        /\ inv[i].startedAt = DuplicateWindowMs
        /\ ContextNamesAllThree(inv[i].parameters.context)

-----------------------------------------------------------------------------
(* Claims about the argument handling *)

AttendeeOps == {"create_calendar_event", "create_calendar_link"}

LooksLikeJsonArray(text) ==
    Len(text) >= 1 /\ text[1] = "[" /\ text[Len(text)] = "]"

AllStrings(elems) == \A k \in 1..Len(elems) : elems[k].type = "string"

ListedIds(evs, list) ==
    LET chosen == SelectSeq(evs, LAMBDA e : e.id \in { list[k] : k \in 1..Len(list) })
    IN  [k \in 1..Len(chosen) |-> chosen[k].id]

\* C10: generate_ics, given the ids in any encoding, selects exactly the
\* events whose id is listed (whenever one is), and suggest_meeting_times
\* given attendees as a string completes with one proposal per suggested slot.
C10_ListParameters ==
    normPc = "done" =>
        /\ (normOut.op = "generate_ics" /\ normIn.enc \in Encodings
              /\ Len(ListedIds(events, normIn.list)) > 0)
             => /\ ~normOut.threw
                /\ normOut.selected = ListedIds(events, normIn.list)
        /\ (normOut.op = "suggest_meeting_times" /\ normIn.raw.kind = "string")
             => /\ ~normOut.threw
                /\ normOut.totalSlots = normOut.suggested

====
